---- MODULE Spec2Model ----
(***************************************************************************)
(* A model of oracle-rag: the chunker (chunking/splitter.py), the indexer  *)
(* (indexing/pdf_indexer.py), the RAG chain (rag/chain.py, formatting.py)   *)
(* and the tool layer (mcp/tools.py, scripts/rag_cli.py).                   *)
(*                                                                         *)
(* Text is a sequence of one-character strings, so that strip(), split()   *)
(* and the heading heuristic are computed character by character.          *)
(* An optional value is a record [some, val]; some is FALSE for None.      *)
(*                                                                         *)
(* Specifications:                                                         *)
(*   SpecChunk  chunk_documents applied to bounded page lists              *)
(*   SpecFmt    format_sources applied to bounded document lists           *)
(*   SpecIndex  index_pdf / remove_pdf against the persisted collection    *)
(*   SpecRag    run_rag, entered directly, through query_pdf or the CLI    *)
(*   SpecBatch  add_pdfs over bounded path lists                           *)
(*   SpecTools  the tools and index_pdf against one store, call by call    *)
(*   SpecSplit  chunk_documents with the real splitter, bounded texts      *)
(*   SpecConfig index_pdf's chunk settings from arguments and environment  *)
(*   SpecContext format_docs applied to bounded document lists             *)
(*   SpecRace   two index_pdf calls at once against one collection         *)
(*   SpecBulk   index_pdf for PDFs of more chunks than one batch holds     *)
(***************************************************************************)
EXTENDS Integers, Sequences, FiniteSets, TLC

VARIABLES
    cdDocs,     \* chunk_documents: the `documents` argument
    cdOut,      \* chunk_documents: the returned chunk list
    cdDone,     \* chunk_documents: has returned
    cfg,        \* index_pdf's chunk settings: arguments, environment, values used
    fsDocs,     \* format_sources / format_docs: the `docs` argument
    fsOut,      \* format_sources / format_docs: the returned list or text
    fsDone,     \* format_sources / format_docs: has returned
    store,      \* the persisted collection: collection name -> sequence of records
    clock,      \* number of index_pdf calls that opened the store (timestamps, ids)
    call,       \* the index_pdf / remove_pdf call in progress, or idle
    last,       \* what the most recent call that returned or raised reported
    created,    \* the collections whose persistence directory exists
    rag,        \* the query in progress: entry point, arguments, position, result
    batch       \* the add_pdfs call: arguments, loop position, result lists

chunkVars == <<cdDocs, cdOut, cdDone, cfg>>
fmtVars   == <<fsDocs, fsOut, fsDone>>
indexVars == <<store, clock, call, last, created>>
ragVars   == <<rag>>
batchVars == <<batch>>
vars      == <<cdDocs, cdOut, cdDone, cfg, fsDocs, fsOut, fsDone,
               store, clock, call, last, created, rag, batch>>

(***************************************************************************)
(* Bounds of the model.                                                    *)
(***************************************************************************)
MaxPages == 2
MaxSplit == 2
MaxDocs  == 3
MaxOps   == 3
MaxPaths == 3

(***************************************************************************)
(* Strings as character sequences.                                         *)
(***************************************************************************)
NL == "\n"
SP == " "
EmptyStr == <<>>
Whitespace == {SP, NL, "\t"}

Min(a, b) == IF a <= b THEN a ELSE b

\* The element of a one-element set.
The(S) == CHOOSE x \in S : TRUE

\* str.strip(): drop leading and trailing whitespace.
Strip(s) ==
    LET keep == {i \in 1..Len(s) : s[i] \notin Whitespace}
    IN  IF keep = {} THEN EmptyStr
        ELSE LET lo == CHOOSE i \in keep : \A j \in keep : i <= j
                 hi == CHOOSE i \in keep : \A j \in keep : j <= i
             IN  SubSeq(s, lo, hi)

\* content.split("\n")[0]: the text before the first newline.
FirstLineRaw(s) ==
    LET nls == {i \in 1..Len(s) : s[i] = NL}
    IN  IF nls = {} THEN s
        ELSE SubSeq(s, 1, (CHOOSE i \in nls : \A j \in nls : i <= j) - 1)

\* re.search(r"[#/=;]", s)
HasCodeChar(s) == \E i \in 1..Len(s) : s[i] \in {"#", "/", "=", ";"}

\* re.search(r"[.!?]\s*$", s): a terminal mark followed only by whitespace.
EndsSentence(s) ==
    \E i \in 1..Len(s) :
        /\ s[i] \in {".", "!", "?"}
        /\ \A j \in (i + 1)..Len(s) : s[j] \in Whitespace

HEADING_LINE_MAX_LEN == 60

\* _is_heading_line
IsHeadingLine(line) ==
    LET stripped == Strip(line)
    IN  IF stripped = EmptyStr THEN FALSE
        ELSE IF HasCodeChar(stripped) THEN FALSE
        ELSE Len(stripped) <= HEADING_LINE_MAX_LEN /\ ~EndsSentence(stripped)

\* _extract_heading_from_chunk: the first line if it looks like a heading, else None.
ExtractHeadingFromChunk(content) ==
    LET first_line == IF content /= EmptyStr THEN Strip(FirstLineRaw(content)) ELSE EmptyStr
    IN  IF IsHeadingLine(first_line) THEN [some |-> TRUE, val |-> first_line]
        ELSE [some |-> FALSE, val |-> EmptyStr]

(***************************************************************************)
(* chunk_documents.  A page document carries the output the text splitter  *)
(* (langchain's RecursiveCharacterTextSplitter, an external library) gives *)
(* for it in the field `split`; everything chunk_documents itself does     *)
(* with that output is modelled below.                                     *)
(***************************************************************************)

\* current_section = "" at the top of each page's loop; `carried` is the value the
\* variable held when the previous page ended.
SectionAtPageStartCarried(carried) == carried
SectionAtPageStart(carried) == EmptyStr

\* enumerate(split_chunks): the index stamped on a chunk; `emitted` is the number
\* of chunks already appended to the output list.
ChunkIndexGlobal(idx, emitted) == emitted
ChunkIndexOf(idx, emitted) == idx

\* doc.metadata.get(document_id_key) or doc.metadata.get("source", "")
DocIdSource(meta) == meta.source
DocIdOf(meta) == IF meta.file_name /= "" THEN meta.file_name ELSE meta.source

\* The value of current_section after the loop body has run for chunks 1..n of
\* `split`, starting from `start`.
RECURSIVE SectionAfter(_, _, _)
SectionAfter(split, n, start) ==
    IF n = 0 THEN start
    ELSE LET current_section == SectionAfter(split, n - 1, start)
             heading == ExtractHeadingFromChunk(split[n])
         IN  IF heading.some THEN heading.val ELSE current_section

\* The inner loop over one page's split chunks.
ChunkPage(doc, carried, emitted) ==
    LET start == SectionAtPageStart(carried)
    IN  [i \in 1..Len(doc.split) |->
            [page_content |-> doc.split[i],
             page         |-> doc.page,
             file_name    |-> doc.file_name,
             source       |-> doc.source,
             chunk_index  |-> ChunkIndexOf(i - 1, emitted + i - 1),
             document_id  |-> DocIdOf(doc),
             section      |-> SectionAfter(doc.split, i, start)]]

\* The outer loop, from document k on.
RECURSIVE ChunkFrom(_, _, _, _)
ChunkFrom(documents, k, carried, chunks) ==
    IF k > Len(documents) THEN chunks
    ELSE LET doc   == documents[k]
             start == SectionAtPageStart(carried)
         IN  ChunkFrom(documents, k + 1,
                       SectionAfter(doc.split, Len(doc.split), start),
                       chunks \o ChunkPage(doc, carried, Len(chunks)))

ChunkDocuments(documents) ==
    IF documents = <<>> THEN <<>> ELSE ChunkFrom(documents, 1, EmptyStr, <<>>)

(***************************************************************************)
(* Inputs of SpecChunk: the chunk texts a page may split into, and the     *)
(* page lists the loader can hand over (page numbers strictly increasing,  *)
(* one file name and source path for all pages).                           *)
(***************************************************************************)
TxtIntro == <<"I", "n", "t", "r", "o">>
TxtSec2  == <<SP, "S", "e", "c", "2", SP, NL, "b", "o", "d", "y", ".">>
TxtBody  == <<"B", "o", "d", "y", ".", NL, "M", "o", "r", "e">>
ChunkTexts == {TxtIntro, TxtSec2, TxtBody}

RECURSIVE SeqsUpTo(_, _)
SeqsUpTo(S, n) ==
    IF n = 0 THEN {<<>>}
    ELSE LET shorter == SeqsUpTo(S, n - 1)
         IN  shorter \cup {Append(s, x) : s \in {t \in shorter : Len(t) = n - 1}, x \in S}

\* What the splitter may return for one page: up to n chunk texts.
SplitOutputs(n) == SeqsUpTo(ChunkTexts, n)

\* The pages of a set of page numbers, in increasing order.
RECURSIVE SortedPages(_)
SortedPages(S) ==
    IF S = {} THEN <<>>
    ELSE LET m == CHOOSE x \in S : \A y \in S : y <= x
         IN  Append(SortedPages(S \ {m}), m)

\* The page documents of the page numbers ps, of a file named fn, page p split
\* into the chunk texts f[p].
PageList(ps, fn, f) ==
    [i \in 1..Len(SortedPages(ps)) |->
        [page      |-> SortedPages(ps)[i],
         file_name |-> fn,
         source    |-> "/d1/a.pdf",
         split     |-> f[SortedPages(ps)[i]]]]

(***************************************************************************)
(* format_sources.  A retrieved document's metadata: document_id,          *)
(* file_name and source are strings ("" when the key is missing or falsy), *)
(* page is missing, None, an int or a str.                                 *)
(***************************************************************************)
Digits == <<"0", "1", "2", "3", "4", "5", "6", "7", "8", "9">>
IsDigit(c) == \E d \in 1..10 : Digits[d] = c
DigitVal(c) == (CHOOSE d \in 1..10 : Digits[d] = c) - 1

RECURSIVE DigitsValue(_)
DigitsValue(s) ==
    IF s = <<>> THEN 0
    ELSE 10 * DigitsValue(SubSeq(s, 1, Len(s) - 1)) + DigitVal(s[Len(s)])

\* int(str): surrounding whitespace and one sign are allowed; anything else is a
\* ValueError, reported here as ok = FALSE.
ParseInt(s) ==
    LET t      == Strip(s)
        signed == t /= <<>> /\ t[1] \in {"+", "-"}
        body   == IF signed THEN Tail(t) ELSE t
    IN  IF body /= <<>> /\ \A i \in 1..Len(body) : IsDigit(body[i])
        THEN [ok |-> TRUE,
              val |-> IF signed /\ t[1] = "-" THEN 0 - DigitsValue(body) ELSE DigitsValue(body)]
        ELSE [ok |-> FALSE, val |-> 0]

\* try: page = int(meta.get("page", 0)) except (TypeError, ValueError): page = 0
PageOf(meta) ==
    CASE meta.page.kind = "missing" -> 0
      [] meta.page.kind = "none"    -> 0
      [] meta.page.kind = "int"     -> meta.page.int
      [] meta.page.kind = "str"     -> IF ParseInt(meta.page.str).ok
                                       THEN ParseInt(meta.page.str).val ELSE 0

\* str(meta.get("document_id") or meta.get("file_name") or meta.get("source") or "?")
SourceDocId(meta) ==
    IF meta.document_id /= "" THEN meta.document_id
    ELSE IF meta.file_name /= "" THEN meta.file_name
    ELSE IF meta.source /= "" THEN meta.source
    ELSE "?"

\* `key not in seen`
NotSeenNever(key, seen) == TRUE
NotSeen(key, seen) == key \notin seen

RECURSIVE FormatSourcesFrom(_, _, _, _)
FormatSourcesFrom(docs, k, seen, out) ==
    IF k > Len(docs) THEN out
    ELSE LET doc_id == SourceDocId(docs[k])
             page   == PageOf(docs[k])
             key    == <<doc_id, page>>
         IN  IF NotSeen(key, seen)
             THEN FormatSourcesFrom(docs, k + 1, seen \cup {key},
                                    Append(out, [document_id |-> doc_id, page |-> page]))
             ELSE FormatSourcesFrom(docs, k + 1, seen, out)

FormatSources(docs) == FormatSourcesFrom(docs, 1, {}, <<>>)

PgMissing == [kind |-> "missing", int |-> 0, str |-> <<>>]
PgNone    == [kind |-> "none", int |-> 0, str |-> <<>>]
PgInt(n)  == [kind |-> "int", int |-> n, str |-> <<>>]
PgStr(s)  == [kind |-> "str", int |-> 0, str |-> s]

SourcePages ==
    {PgMissing, PgNone, PgInt(1), PgInt(2), PgStr(<<SP, "2">>), PgStr(<<"p", "2">>)}
SourceIds ==
    { [document_id |-> "b.pdf", file_name |-> "b.pdf", source |-> "/d1/b.pdf"],
      [document_id |-> "",      file_name |-> "a.pdf", source |-> "/d1/a.pdf"],
      [document_id |-> "",      file_name |-> "",      source |-> ""] }
SourceMetas ==
    { [document_id |-> d.document_id, file_name |-> d.file_name,
       source |-> d.source, page |-> p] : d \in SourceIds, p \in SourcePages }

CallChunkDocuments ==
    /\ ~cdDone
    /\ cdOut' = ChunkDocuments(cdDocs)
    /\ cdDone' = TRUE
    /\ UNCHANGED <<cdDocs, cfg, fmtVars, indexVars, ragVars, batchVars>>

CallFormatSources ==
    /\ ~fsDone
    /\ fsOut' = FormatSources(fsDocs)
    /\ fsDone' = TRUE
    /\ UNCHANGED <<fsDocs, chunkVars, indexVars, ragVars, batchVars>>

(***************************************************************************)
(* The text splitter chunk_documents calls: langchain's                    *)
(* RecursiveCharacterTextSplitter with its default separators, keeping the *)
(* separator at the start of the following piece and stripping each chunk. *)
(***************************************************************************)

RECURSIVE JoinAll(_)
JoinAll(pieces) ==
    IF pieces = <<>> THEN <<>> ELSE Head(pieces) \o JoinAll(Tail(pieces))

\* The first position at which `sep` occurs in `text`, 0 when it does not.
FindSep(text, sep) ==
    LET hits == {k \in 1..(Len(text) - Len(sep) + 1) : SubSeq(text, k, k + Len(sep) - 1) = sep}
    IN  IF hits = {} THEN 0 ELSE CHOOSE k \in hits : \A h \in hits : k <= h

\* re.split(sep, text): the segments between the occurrences of a non-empty sep.
RECURSIVE SegmentsOf(_, _)
SegmentsOf(text, sep) ==
    LET k == FindSep(text, sep)
    IN  IF k = 0 THEN <<text>>
        ELSE <<SubSeq(text, 1, k - 1)>>
               \o SegmentsOf(SubSeq(text, k + Len(sep), Len(text)), sep)

\* _split_text_with_regex with keep_separator: the separator stays in front of
\* the segment that follows it; empty pieces are dropped.
SplitKeepingSeparator(text, sep) ==
    LET segs   == SegmentsOf(text, sep)
        pieces == IF sep = <<>> THEN [i \in 1..Len(text) |-> <<text[i]>>]
                  ELSE [i \in 1..Len(segs) |-> IF i = 1 THEN segs[1] ELSE sep \o segs[i]]
    IN  SelectSeq(pieces, LAMBDA x : x /= <<>>)

\* _join_docs: the pieces joined and stripped; nothing when that leaves "".
JoinDocsFirstPiece(current_doc) ==
    LET text == IF current_doc = <<>> THEN <<>> ELSE Strip(Head(current_doc))
    IN  IF text = <<>> THEN <<>> ELSE <<text>>
JoinDocs(current_doc) ==
    LET text == Strip(JoinAll(current_doc))
    IN  IF text = <<>> THEN <<>> ELSE <<text>>

\* The while loop of _merge_splits that drops pieces from the front of
\* current_doc until the overlap and the next piece fit.
RECURSIVE DropForOverlap(_, _, _, _, _)
DropForOverlap(current_doc, total, dlen, size, overlap) ==
    IF total > overlap \/ (total + dlen > size /\ total > 0)
    THEN DropForOverlap(Tail(current_doc), total - Len(Head(current_doc)), dlen, size, overlap)
    ELSE [current_doc |-> current_doc, total |-> total]

\* _merge_splits, from piece k on.
RECURSIVE MergeFrom(_, _, _, _, _, _, _)
MergeFrom(splits, k, docs, current_doc, total, size, overlap) ==
    IF k > Len(splits) THEN docs \o JoinDocs(current_doc)
    ELSE LET d == splits[k]
         IN  IF total + Len(d) > size /\ current_doc /= <<>>
             THEN LET kept == DropForOverlap(current_doc, total, Len(d), size, overlap)
                  IN  MergeFrom(splits, k + 1, docs \o JoinDocs(current_doc),
                                Append(kept.current_doc, d), kept.total + Len(d),
                                size, overlap)
             ELSE MergeFrom(splits, k + 1, docs, Append(current_doc, d), total + Len(d),
                            size, overlap)

\* _merge_splits.
MergeSplitsEach(splits, size, overlap) ==
    SelectSeq([k \in 1..Len(splits) |-> Strip(splits[k])], LAMBDA x : x /= <<>>)
MergeSplits(splits, size, overlap) == MergeFrom(splits, 1, <<>>, <<>>, 0, size, overlap)

Separators == << <<NL, NL>>, <<NL>>, <<SP>>, <<>> >>

\* _split_text: split on the first separator (from `from` on) the text contains,
\* merge the pieces that fit, and split the others again with the finer separators.
RECURSIVE SplitTextFrom(_, _, _, _)
RECURSIVE SplitPieces(_, _, _, _, _, _, _)
SplitPieces(splits, k, good, final, next, size, overlap) ==
    IF k > Len(splits)
    THEN IF good /= <<>> THEN final \o MergeSplits(good, size, overlap) ELSE final
    ELSE IF Len(splits[k]) < size
         THEN SplitPieces(splits, k + 1, Append(good, splits[k]), final, next, size, overlap)
         ELSE LET flushed == IF good /= <<>> THEN final \o MergeSplits(good, size, overlap)
                             ELSE final
                  finer   == IF next > Len(Separators) THEN <<splits[k]>>
                             ELSE SplitTextFrom(splits[k], next, size, overlap)
              IN  SplitPieces(splits, k + 1, <<>>, flushed \o finer, next, size, overlap)

SplitTextFrom(text, from, size, overlap) ==
    LET found == {i \in from..Len(Separators) :
                     Separators[i] = <<>> \/ FindSep(text, Separators[i]) > 0}
        idx   == IF found = {} THEN Len(Separators)
                 ELSE CHOOSE i \in found : \A j \in found : i <= j
        sep   == Separators[idx]
        next  == IF sep = <<>> \/ found = {} THEN Len(Separators) + 1 ELSE idx + 1
    IN  SplitPieces(SplitKeepingSeparator(text, sep), 1, <<>>, <<>>, next, size, overlap)

SplitText(text, size, overlap) == SplitTextFrom(text, 1, size, overlap)

(***************************************************************************)
(* _ensure_heading_paragraph_breaks.                                       *)
(***************************************************************************)
RECURSIVE JoinLines(_)
JoinLines(lines) ==
    IF lines = <<>> THEN <<>>
    ELSE IF Len(lines) = 1 THEN lines[1]
    ELSE lines[1] \o <<NL>> \o JoinLines(Tail(lines))

RECURSIVE BreaksFrom(_, _, _)
BreaksFrom(lines, k, out) ==
    IF k > Len(lines) THEN out
    ELSE LET line     == lines[k]
             stripped == Strip(line)
         IN  IF stripped = <<>> THEN BreaksFrom(lines, k + 1, Append(out, line))
             ELSE IF Len(stripped) <= HEADING_LINE_MAX_LEN /\ ~EndsSentence(stripped)
             THEN IF out /= <<>> /\ Strip(out[Len(out)]) /= <<>>
                  THEN BreaksFrom(lines, k + 1, Append(Append(out, <<>>), line))
                  ELSE BreaksFrom(lines, k + 1, Append(out, line))
             ELSE BreaksFrom(lines, k + 1, Append(out, line))

EnsureHeadingParagraphBreaks(text) ==
    JoinLines(BreaksFrom(SegmentsOf(text, <<NL>>), 1, <<>>))

(***************************************************************************)
(* The file system the indexer reads.  A PDF page has the text pypdf       *)
(* extracts in layout mode and the text it extracts in plain mode.         *)
(***************************************************************************)
NoneInt == [some |-> FALSE, val |-> 0]
SomeInt(n) == [some |-> TRUE, val |-> n]
NoneStr == [some |-> FALSE, val |-> ""]
SomeStr(s) == [some |-> TRUE, val |-> s]

TxtPara  == <<"B", "o", "d", "y", ".", NL, "I", "n", "t", "r", "o", NL, "M", "o", "r", "e", ".">>
TxtMore  == <<"M", "o", "r", "e", ".">>
TxtTitle == <<"I", "n", "t", "r", "o", NL, "B", "o", "d", "y", ".">>

Pg(layout, plain) == [layout |-> layout, plain |-> plain]

\* index_pdf, line 101: batch_size
BATCH_SIZE == 100

NoFile == [exists |-> FALSE, is_file |-> FALSE, is_pdf |-> FALSE, corrupt |-> FALSE,
           name |-> "", bytes |-> 0, pages |-> <<>>]
PdfFile(name, bytes, pages) ==
    [exists |-> TRUE, is_file |-> TRUE, is_pdf |-> TRUE, corrupt |-> FALSE,
     name |-> name, bytes |-> bytes, pages |-> pages]

\* n short paragraphs with a blank line between them.
Paragraphs(n) ==
    [i \in 1..(7 * n - 2) |-> IF (i - 1) % 7 < 5 THEN TxtMore[((i - 1) % 7) + 1] ELSE NL]

\* A PDF of n short paragraphs, ten to a page.
BigPdf(name, n) ==
    PdfFile(name, 40 * n,
            [k \in 1..((n + 9) \div 10) |->
                Pg(Paragraphs(Min(10, n - 10 * (k - 1))),
                   Paragraphs(Min(10, n - 10 * (k - 1))))])

GoodPaths == {"/d1/a.pdf", "/d2/a.pdf", "/d1/b.pdf", "/d2/b.pdf"}
BadPaths  == {"/d1/missing.pdf", "/d1/notes.txt", "/d1/scan.pdf"}
Paths     == GoodPaths \cup BadPaths

FileAt(path) ==
    CASE path = "/d1/a.pdf" -> PdfFile("a.pdf", 300, <<Pg(TxtPara, TxtPara), Pg(TxtIntro, TxtIntro)>>)
      [] path = "/d2/a.pdf" -> PdfFile("a.pdf", 100, <<Pg(TxtMore, TxtMore)>>)
      [] path = "/d1/b.pdf" -> PdfFile("b.pdf", 200, <<Pg(<<>>, TxtTitle)>>)
      [] path = "/d2/b.pdf" -> PdfFile("b.pdf", 50, <<>>)
      [] path = "/d1/scan.pdf" -> PdfFile("scan.pdf", 900, <<Pg(<<SP>>, <<>>)>>)
      [] path = "/d3/a.pdf" ->
            [PdfFile("a.pdf", 300, <<Pg(TxtPara, TxtPara)>>) EXCEPT !.corrupt = TRUE]
      [] path = "/d4/a.pdf" -> [NoFile EXCEPT !.name = "a.pdf"]
      [] path = "/d5/a.pdf" -> PdfFile("a.pdf", 900, <<Pg(<<SP>>, <<>>), Pg(<<>>, <<NL>>)>>)
      [] path = "/d1/big100.pdf" -> BigPdf("big100.pdf", BATCH_SIZE)
      [] path = "/d1/big101.pdf" -> BigPdf("big101.pdf", BATCH_SIZE + 1)
      [] path = "/d1/big200.pdf" -> BigPdf("big200.pdf", 2 * BATCH_SIZE)
      [] path = "/d1/notes.txt" ->
            [exists |-> TRUE, is_file |-> TRUE, is_pdf |-> FALSE, corrupt |-> FALSE,
             name |-> "notes.txt", bytes |-> 10, pages |-> <<>>]
      [] OTHER -> NoFile

(***************************************************************************)
(* load_pdf_as_documents.                                                  *)
(***************************************************************************)
LAYOUT_MIN_CHARS_FOR_NO_FALLBACK == 500

\* _extract_with_mode: one document per page whose stripped text is not empty.
RECURSIVE ExtractFrom(_, _, _, _)
ExtractFrom(path, mode, k, docs) ==
    LET file == FileAt(path)
    IN  IF k > Len(file.pages) THEN docs
        ELSE LET text == Strip(IF mode = "layout" THEN file.pages[k].layout
                                                  ELSE file.pages[k].plain)
             IN  IF text = <<>> THEN ExtractFrom(path, mode, k + 1, docs)
                 ELSE ExtractFrom(path, mode, k + 1,
                                  Append(docs, [source       |-> path,
                                                file_name    |-> file.name,
                                                page         |-> k,
                                                total_pages  |-> Len(file.pages),
                                                page_content |-> text]))

ExtractWithMode(path, mode) == ExtractFrom(path, mode, 1, <<>>)

RECURSIVE TotalChars(_)
TotalChars(docs) ==
    IF docs = <<>> THEN 0 ELSE Len(Head(docs).page_content) + TotalChars(Tail(docs))

Raised(type, msg) == [ok |-> FALSE, error |-> [type |-> type, msg |-> msg],
                      documents |-> <<>>, total_pages |-> 0]

LoadWithoutChecks(path) ==
    [ok |-> TRUE, error |-> [type |-> "", msg |-> ""],
     documents |-> ExtractWithMode(path, "layout"), total_pages |-> Len(FileAt(path).pages)]
LoadPdfAsDocuments(path) ==
    LET file == FileAt(path)
    IN  IF ~file.exists THEN Raised("FileNotFoundError", "PDF not found")
        ELSE IF ~file.is_file THEN Raised("ValueError", "Path is not a file")
        ELSE IF ~file.is_pdf THEN Raised("ValueError", "Expected a .pdf file")
        ELSE IF file.corrupt THEN Raised("ValueError", "PDF appears corrupted or unreadable")
        ELSE LET total_pages == Len(file.pages)
                 layout      == ExtractWithMode(path, "layout")
                 plain       == ExtractWithMode(path, "plain")
                 docs        ==
                    IF total_pages > 0
                       /\ (Len(layout) < 2 \/ TotalChars(layout) < LAYOUT_MIN_CHARS_FOR_NO_FALLBACK)
                       /\ (Len(plain) > Len(layout) \/ TotalChars(plain) > TotalChars(layout))
                    THEN plain ELSE layout
             IN  IF total_pages > 0 /\ Len(docs) = 0
                 THEN Raised("ValueError", "No text extracted")
                 ELSE [ok |-> TRUE, error |-> [type |-> "", msg |-> ""],
                       documents |-> docs, total_pages |-> total_pages]

(***************************************************************************)
(* index_pdf, up to the point where it touches the store.                  *)
(***************************************************************************)
DEFAULT_CHUNK_SIZE == 1000
DEFAULT_CHUNK_OVERLAP == 200

\* os.environ.get(name): unset, or the text the variable holds.
EnvUnset == [set |-> FALSE, val |-> <<>>]
EnvSet(text) == [set |-> TRUE, val |-> text]

\* get_chunk_size: the default unless the variable parses as an integer >= 1.
GetChunkSizeUnchecked(env) ==
    IF ~env.set THEN DEFAULT_CHUNK_SIZE
    ELSE IF ~ParseInt(env.val).ok THEN DEFAULT_CHUNK_SIZE
    ELSE ParseInt(env.val).val
GetChunkSize(env) ==
    IF ~env.set THEN DEFAULT_CHUNK_SIZE
    ELSE IF ~ParseInt(env.val).ok THEN DEFAULT_CHUNK_SIZE
    ELSE IF ParseInt(env.val).val < 1 THEN DEFAULT_CHUNK_SIZE
    ELSE ParseInt(env.val).val

\* get_chunk_overlap: the default unless the variable parses as an integer >= 0.
GetChunkOverlap(env) ==
    IF ~env.set THEN DEFAULT_CHUNK_OVERLAP
    ELSE IF ~ParseInt(env.val).ok THEN DEFAULT_CHUNK_OVERLAP
    ELSE IF ParseInt(env.val).val < 0 THEN DEFAULT_CHUNK_OVERLAP
    ELSE ParseInt(env.val).val

\* index_pdf, lines 70-71: an argument that is not None wins over the environment.
ChunkSettings(chunk_size, chunk_overlap, env_size, env_overlap) ==
    [size    |-> IF chunk_size.some THEN chunk_size.val ELSE GetChunkSize(env_size),
     overlap |-> IF chunk_overlap.some THEN chunk_overlap.val
                 ELSE GetChunkOverlap(env_overlap)]

\* The page documents as chunk_documents hands them to the splitter: the text with
\* paragraph breaks before heading lines, and the splitter's output for it.
WithSplit(documents, size, overlap) ==
    [k \in 1..Len(documents) |->
        [page      |-> documents[k].page,
         file_name |-> documents[k].file_name,
         source    |-> documents[k].source,
         split     |-> SplitText(EnsureHeadingParagraphBreaks(documents[k].page_content),
                                 size, overlap)]]

\* The document id index_pdf deletes by: pdf_path.name.
ReplaceIdFullPath(path) == path
ReplaceId(path) == FileAt(path).name

\* Lines 66-94 of index_pdf: load, chunk, stamp the document-level metadata.
\* `now` is the upload timestamp.  The splitter's constructor rejects a
\* non-positive size and an overlap larger than the size.
StampChunks(chunks, now, total_pages, bytes) ==
    [k \in 1..Len(chunks) |->
        [page_content     |-> chunks[k].page_content,
         page             |-> chunks[k].page,
         file_name        |-> chunks[k].file_name,
         source           |-> chunks[k].source,
         chunk_index      |-> chunks[k].chunk_index,
         document_id      |-> chunks[k].document_id,
         section          |-> chunks[k].section,
         upload_timestamp |-> now,
         doc_pages        |-> total_pages,
         doc_bytes        |-> bytes,
         doc_total_chunks |-> Len(chunks)]]

PrepareLoaded(path, size, overlap, now, pdf_result) ==
    IF ~pdf_result.ok THEN [ok |-> FALSE, error |-> pdf_result.error,
                            chunk_docs |-> <<>>, total_pages |-> 0]
    ELSE IF pdf_result.documents /= <<>> /\ (size <= 0 \/ overlap < 0 \/ overlap > size)
    THEN [ok |-> FALSE, error |-> [type |-> "ValueError", msg |-> "bad chunk settings"],
          chunk_docs |-> <<>>, total_pages |-> 0]
    ELSE [ok |-> TRUE, error |-> [type |-> "", msg |-> ""],
          total_pages |-> pdf_result.total_pages,
          chunk_docs |->
            The({StampChunks(chunks, now, pdf_result.total_pages, FileAt(path).bytes) :
                    chunks \in {ChunkDocuments(WithSplit(pdf_result.documents,
                                                         size, overlap))}})]

\* The callers of the model leave the two environment variables unset.
PrepareIndex(path, chunk_size, chunk_overlap, now) ==
    The({PrepareLoaded(path, settings.size, settings.overlap, now, pdf_result) :
            pdf_result \in {LoadPdfAsDocuments(path)},
            settings \in {ChunkSettings(chunk_size, chunk_overlap, EnvUnset, EnvUnset)}})

(***************************************************************************)
(* index_pdf, lines 70-76, on its own: settle the chunk settings, then     *)
(* chunk the loaded pages with them.                                       *)
(***************************************************************************)
NoSettings ==
    [chunk_size |-> NoneInt, chunk_overlap |-> NoneInt,
     env_size |-> EnvUnset, env_overlap |-> EnvUnset,
     size |-> 0, overlap |-> 0, raised |-> FALSE]

\* One loaded page, as load_pdf_as_documents returns it.
OnePage(text) ==
    << [page |-> 1, file_name |-> "a.pdf", source |-> "/d1/a.pdf", page_content |-> text] >>

TxtSpaced == <<"a", "b", SP, "c", "d", NL, NL, "e", "f", SP, SP, "g", "h">>
TxtPadded == <<SP, "x", SP>>
TxtBlank  == <<SP, NL>>
TxtCode   == <<"B", "o", "d", "y", ".", NL, "x", "=", "1">>
SplitTexts ==
    {TxtPara, TxtTitle, TxtMore, TxtBody, TxtSec2, TxtSpaced, TxtPadded, TxtBlank,
     TxtCode}

MaxChunkSize == 18
MaxOverlap   == 3

EnvValues ==
    {EnvUnset, EnvSet(<<"1", "2">>), EnvSet(<<SP, "7", SP>>), EnvSet(<<"0">>),
     EnvSet(<<"-", "1">>), EnvSet(<<"a", "b", "c">>), EnvSet(<<>>),
     EnvSet(<<"1", ".", "5">>)}

IndexChunk ==
    /\ ~cdDone
    /\ \E st \in {ChunkSettings(cfg.chunk_size, cfg.chunk_overlap,
                                 cfg.env_size, cfg.env_overlap)} :
       \E bad \in {cdDocs /= <<>>
                      /\ (st.size <= 0 \/ st.overlap < 0 \/ st.overlap > st.size)} :
          /\ cfg' = [cfg EXCEPT !.size = st.size, !.overlap = st.overlap,
                                !.raised = bad]
          /\ cdOut' = IF bad THEN <<>>
                      ELSE ChunkDocuments(WithSplit(cdDocs, st.size, st.overlap))
    /\ cdDone' = TRUE
    /\ UNCHANGED <<cdDocs, fmtVars, indexVars, ragVars, batchVars>>

(***************************************************************************)
(* The persisted collections and the calls that change them.               *)
(***************************************************************************)
Collections == {"c1", "c2"}
Procs == {1, 2}

CallIdle ==
    [op |-> "idle", pc |-> "idle", path |-> "", coll |-> "", document_id |-> "",
     chunk_size |-> NoneInt, chunk_overlap |-> NoneInt, chunk_docs |-> <<>>,
     i |-> 0, callno |-> 0, total_pages |-> 0, deleted |-> FALSE, replaced |-> 0]

\* `repeats` says that the call completed just before this one was an index_pdf
\* that returned, for the same path, collection and chunk settings; first_count
\* and first_total are then the collection's size after that call and the
\* total_chunks it returned.  tag is the tag keyword of the call, touched the
\* clients the call created ("embedding", "store"), documents and
\* document_details what list_pdfs returned, tool the server tool the call came
\* through, logged the number of times the server logged an exception for it.
NoSummary ==
    [op |-> "none", path |-> "", coll |-> "", document_id |-> "",
     chunk_size |-> NoneInt, chunk_overlap |-> NoneInt, outcome |-> "none",
     error |-> "", total_chunks |-> 0, deleted_chunks |-> 0, count_after |-> 0,
     callno |-> 0, repeats |-> FALSE, first_count |-> 0, first_total |-> 0,
     replaced |-> 0, tag |-> NoneStr, touched |-> {}, documents |-> <<>>,
     document_details |-> <<>>, tool |-> "", logged |-> 0]

Settings == { <<NoneInt, NoneInt>>, <<SomeInt(15), SomeInt(0)>>, <<SomeInt(15), NoneInt>> }

AllIdle == \A p \in Procs : call[p].op = "idle"

\* store._collection.delete(where={"document_id": document_id})
DeleteNothing(records, document_id) == records
DeleteWholeCollection(records, document_id) == <<>>
DeleteWhere(records, document_id) ==
    SelectSeq(records, LAMBDA r : r.document_id /= document_id)

\* store.add_documents(docs): each record is stored under a fresh id.
AddDocumentsReplacing(records, docs, callno, offset) ==
    SelectSeq(records, LAMBDA r : \A k \in 1..Len(docs) :
                                     r.document_id /= docs[k].document_id
                                        \/ r.id[1] = callno)
        \o [k \in 1..Len(docs) |-> [id |-> <<callno, offset + k>>] @@ docs[k]]
AddDocuments(records, docs, callno, offset) ==
    records \o [k \in 1..Len(docs) |-> [id |-> <<callno, offset + k>>] @@ docs[k]]

IndexSummary(c, outcome, error, count) ==
    LET repeats == /\ last.op = "index" /\ last.outcome = "returned"
                   /\ last.path = c.path /\ last.coll = c.coll
                   /\ last.chunk_size = c.chunk_size
                   /\ last.chunk_overlap = c.chunk_overlap
    IN  [op |-> "index", path |-> c.path, coll |-> c.coll, document_id |-> c.document_id,
         chunk_size |-> c.chunk_size, chunk_overlap |-> c.chunk_overlap,
         outcome |-> outcome, error |-> error,
         total_chunks |-> IF outcome = "returned" THEN Len(c.chunk_docs) ELSE 0,
         deleted_chunks |-> 0, count_after |-> count, callno |-> c.callno,
         repeats |-> repeats,
         first_count |-> IF repeats THEN last.count_after ELSE 0,
         first_total |-> IF repeats THEN last.total_chunks ELSE 0,
         replaced |-> c.replaced, tag |-> NoneStr,
         touched |-> IF c.callno > 0 THEN {"store"} ELSE {},
         documents |-> <<>>, document_details |-> <<>>, tool |-> "", logged |-> 0]

\* index_pdf, lines 66-94: load, chunk, open the store, stamp the metadata.  A
\* failure of the loader or of the splitter's constructor raises before the store
\* is opened.
IndexStart(p, path, coll, chunk_size, chunk_overlap) ==
    /\ call[p].op = "idle"
    /\ clock < MaxOps
    /\ \E prep \in {PrepareIndex(path, chunk_size, chunk_overlap, clock + 1)} :
       \E c \in {[op |-> "index", pc |-> "delete", path |-> path, coll |-> coll,
                  document_id |-> ReplaceId(path),
                  chunk_size |-> chunk_size, chunk_overlap |-> chunk_overlap,
                  chunk_docs |-> prep.chunk_docs, i |-> 0, callno |-> clock + 1,
                  total_pages |-> prep.total_pages, deleted |-> FALSE,
                  replaced |-> 0]} :
           IF prep.ok
           THEN /\ call' = [call EXCEPT ![p] = c]
                /\ created' = created \cup {coll}
                /\ clock' = clock + 1
                /\ UNCHANGED last
           ELSE /\ last' = IndexSummary([c EXCEPT !.callno = 0], "raised", prep.error.type,
                                        Len(store[coll]))
                /\ UNCHANGED <<call, created, clock>>
    /\ UNCHANGED <<store, chunkVars, fmtVars, ragVars, batchVars>>

\* index_pdf, lines 96-98: delete the chunks stored for this document id.
IndexDelete(p) ==
    /\ call[p].op = "index" /\ call[p].pc = "delete"
    /\ store' = [store EXCEPT ![call[p].coll] = DeleteWhere(@, call[p].document_id)]
    /\ call' = [call EXCEPT ![p].pc = "insert", ![p].deleted = TRUE,
                            ![p].replaced = Len(store[call[p].coll])
                                              - Len(store'[call[p].coll])]
    /\ UNCHANGED <<clock, last, created, chunkVars, fmtVars, ragVars, batchVars>>

\* chunk_docs[i : i + batch_size]
BatchSliceToEnd(chunk_docs, i) == SubSeq(chunk_docs, i + 1, Len(chunk_docs))
BatchSlice(chunk_docs, i) ==
    SubSeq(chunk_docs, i + 1, Min(i + BATCH_SIZE, Len(chunk_docs)))

\* index_pdf, lines 101-105: one pass of the batch loop.
IndexInsertBatch(p) ==
    /\ call[p].op = "index" /\ call[p].pc = "insert"
    /\ call[p].i < Len(call[p].chunk_docs)
    /\ LET c     == call[p]
           slice == BatchSlice(c.chunk_docs, c.i)
       IN  store' = [store EXCEPT ![c.coll] = AddDocuments(@, slice, c.callno, c.i)]
    /\ call' = [call EXCEPT ![p].i = @ + BATCH_SIZE]
    /\ UNCHANGED <<clock, last, created, chunkVars, fmtVars, ragVars, batchVars>>

\* store.add_documents raises (the embedding request fails): index_pdf raises with
\* the batches stored so far left in the collection.
IndexInsertFails(p) ==
    /\ call[p].op = "index" /\ call[p].pc = "insert"
    /\ call[p].i < Len(call[p].chunk_docs)
    /\ last' = IndexSummary(call[p], "raised", "StorageError", Len(store[call[p].coll]))
    /\ call' = [call EXCEPT ![p] = CallIdle]
    /\ UNCHANGED <<store, clock, created, chunkVars, fmtVars, ragVars, batchVars>>

\* index_pdf, lines 107-113: the loop is over, return the IndexResult.
IndexReturn(p) ==
    /\ call[p].op = "index" /\ call[p].pc = "insert"
    /\ call[p].i >= Len(call[p].chunk_docs)
    /\ last' = IndexSummary(call[p], "returned", "", Len(store[call[p].coll]))
    /\ call' = [call EXCEPT ![p] = CallIdle]
    /\ UNCHANGED <<store, clock, created, chunkVars, fmtVars, ragVars, batchVars>>

\* document_id.strip() for the ids the model passes to remove_pdf.
StripId(s) ==
    CASE s = " a.pdf " -> "a.pdf"
      [] s = " "       -> ""
      [] OTHER         -> s

RemoveIds == {"a.pdf", "b.pdf", " a.pdf ", " "}

\* remove_pdf, lines 329-331: the chunks store._collection.get finds for the
\* stripped document id.
FoundAll(records, id) == records
Found(records, id) == SelectSeq(records, LAMBDA r : r.document_id = id)

\* remove_pdf: validate, count the chunks of the document, delete them if any.
RemovePdf(p, document_id, coll) ==
    /\ call[p].op = "idle"
    /\ LET id      == StripId(document_id)
           found   == IF coll \in Collections THEN Found(store[coll], id) ELSE <<>>
           summary == [NoSummary EXCEPT !.op = "remove", !.coll = coll, !.document_id = id]
       IN  IF id = ""
           THEN /\ last' = [summary EXCEPT !.outcome = "raised", !.error = "ValueError",
                                           !.count_after = IF coll \in Collections
                                                           THEN Len(store[coll]) ELSE 0]
                /\ store' = store
           ELSE IF StripId(coll) = ""
           THEN /\ last' = [summary EXCEPT !.outcome = "raised", !.error = "ValueError"]
                /\ store' = store
           ELSE IF coll \notin created
           THEN /\ last' = [summary EXCEPT !.outcome = "raised",
                                           !.error = "FileNotFoundError",
                                           !.count_after = Len(store[coll])]
                /\ store' = store
           ELSE /\ store' = IF Len(found) > 0
                            THEN [store EXCEPT ![coll] = DeleteWhere(@, id)]
                            ELSE store
                /\ last' = [summary EXCEPT !.outcome = "returned",
                                           !.deleted_chunks = Len(found),
                                           !.count_after = Len(store'[coll]),
                                           !.touched = {"store"}]
    /\ UNCHANGED <<clock, call, created, chunkVars, fmtVars, ragVars, batchVars>>

\* One call at a time: a new call starts only when no call is in progress.
NextIndex ==
    \/ \E path \in Paths, coll \in Collections, st \in Settings :
          AllIdle /\ IndexStart(1, path, coll, st[1], st[2])
    \/ IndexDelete(1)
    \/ IndexInsertBatch(1)
    \/ IndexInsertFails(1)
    \/ IndexReturn(1)
    \/ \E id \in RemoveIds, coll \in Collections : AllIdle /\ RemovePdf(1, id, coll)

\* index_pdf called, with a chunk size that makes every paragraph a chunk, for
\* PDFs of no chunk, of a few, of exactly one and two batches, and of one batch
\* and one chunk more.
BulkPaths == {"/d2/b.pdf", "/d1/a.pdf", "/d1/big100.pdf", "/d1/big101.pdf",
              "/d1/big200.pdf"}

MaxBulkOps == 2

NextBulk ==
    \/ \E path \in BulkPaths :
          AllIdle /\ clock < MaxBulkOps /\ IndexStart(1, path, "c1", SomeInt(8), SomeInt(0))
    \/ IndexDelete(1)
    \/ IndexInsertBatch(1)
    \/ IndexInsertFails(1)
    \/ IndexReturn(1)

\* index_pdf called, one call at a time, with the default chunk settings for
\* PDFs that share the file name a.pdf: two that load, a corrupt one, a missing
\* one, one whose pages hold no text; and for a file that is not a PDF.
ReplacePaths == {"/d1/a.pdf", "/d2/a.pdf", "/d1/b.pdf", "/d3/a.pdf", "/d4/a.pdf",
                 "/d5/a.pdf", "/d1/notes.txt"}

NextReplace ==
    \/ \E path \in ReplacePaths :
          AllIdle /\ IndexStart(1, path, "c1", NoneInt, NoneInt)
    \/ IndexDelete(1)
    \/ IndexInsertBatch(1)
    \/ IndexInsertFails(1)
    \/ IndexReturn(1)

\* Two processes index into one collection at the same time: the steps of their
\* index_pdf calls interleave freely, the store taking one request at a time.
RacePaths == {"/d1/a.pdf", "/d2/a.pdf", "/d1/b.pdf", "/d1/scan.pdf"}

NextRace ==
    \/ \E p \in Procs, path \in RacePaths : IndexStart(p, path, "c1", NoneInt, NoneInt)
    \/ \E p \in Procs : IndexDelete(p)
    \/ \E p \in Procs : IndexInsertBatch(p)
    \/ \E p \in Procs : IndexInsertFails(p)
    \/ \E p \in Procs : IndexReturn(p)

(***************************************************************************)
(* Queries: run_rag and its callers query_pdf, query_pdf_tool and the      *)
(* command line's main.                                                    *)
(***************************************************************************)
\* A stored chunk as retrieval returns it.
Stored(document_id, page, tag) ==
    [document_id |-> document_id, file_name |-> document_id,
     source |-> "/d1/" \o document_id, page |-> PgInt(page), tag |-> tag,
     page_content |-> TxtMore]

\* The collection the queries run against: three documents, two tags, the pages
\* 1..MaxPages of each tagged document.
RagStore ==
    [k \in 1..MaxPages |-> Stored("a.pdf", k, "T1")]
    \o [k \in 1..MaxPages |-> Stored("b.pdf", k, "T2")]
    \o << Stored("c.pdf", 1, "T1"), Stored("d.pdf", 1, "") >>

\* build_filter: the page bounds come together or not at all, and in order.
BuildFilter(document_id, tag, page_min, page_max) ==
    IF page_min.some /= page_max.some
    THEN [ok |-> FALSE, error |-> [type |-> "ValueError",
                                   msg |-> "page_min and page_max must be provided together"]]
    ELSE IF page_min.some /\ page_max.some /\ page_min.val > page_max.val
    THEN [ok |-> FALSE, error |-> [type |-> "ValueError",
                                   msg |-> "page_min must be <= page_max"]]
    ELSE [ok |-> TRUE, error |-> [type |-> "", msg |-> ""],
          document_id |-> document_id, tag |-> tag,
          page_min |-> page_min, page_max |-> page_max]

\* The predicate build_filter hands to the store: the clauses joined by AND.
Eligible(filter, chunk) ==
    /\ filter.document_id.some => chunk.document_id = filter.document_id.val
    /\ filter.tag.some => chunk.tag = filter.tag.val
    /\ filter.page_min.some =>
          /\ chunk.page.int >= filter.page_min.val
          /\ chunk.page.int <= filter.page_max.val

Reverse(s) == [i \in 1..Len(s) |-> s[Len(s) + 1 - i]]

\* Filtered similarity search: the k best eligible chunks, in the store's ranking.
SimilaritySearch(filter, k, ranking) ==
    The({SubSeq(hits, 1, Min(k, Len(hits))) :
            hits \in {SelectSeq(IF ranking = "reverse" THEN Reverse(RagStore) ELSE RagStore,
                                LAMBDA chunk : Eligible(filter, chunk))}})

\* create_retriever(...) followed by retriever.invoke(query).
CreateRetrieverAndInvoke(args, ranking) ==
    The({IF ~filter.ok
         THEN [ok |-> FALSE, error |-> filter.error, docs |-> <<>>, retriever_calls |-> 0]
         ELSE [ok |-> TRUE, error |-> [type |-> "", msg |-> ""],
               docs |-> SimilaritySearch(filter, args.k, ranking), retriever_calls |-> 1] :
            filter \in {BuildFilter(args.document_id, args.tag,
                                    args.page_min, args.page_max)}})

\* The keyword arguments run_rag passes to create_retriever.
RetrieverArgsWithoutTag(k, document_id, page_min, page_max, tag) ==
    [k |-> k, document_id |-> document_id, page_min |-> page_min,
     page_max |-> page_max, tag |-> NoneStr]
RetrieverArgs(k, document_id, page_min, page_max, tag) ==
    [k |-> k, document_id |-> document_id, page_min |-> page_min,
     page_max |-> page_max, tag |-> tag]

\* The characters of the strings the model uses for document ids and sources.
StrChars(s) ==
    CASE s = "a.pdf"     -> <<"a", ".", "p", "d", "f">>
      [] s = "b.pdf"     -> <<"b", ".", "p", "d", "f">>
      [] s = "c.pdf"     -> <<"c", ".", "p", "d", "f">>
      [] s = "d.pdf"     -> <<"d", ".", "p", "d", "f">>
      [] s = "/d1/a.pdf" -> <<"/", "d", "1", "/", "a", ".", "p", "d", "f">>
      [] s = "/d1/b.pdf" -> <<"/", "d", "1", "/", "b", ".", "p", "d", "f">>
      [] s = "?"         -> <<"?">>
      [] OTHER           -> <<s>>

\* str(n) for n >= 0.
RECURSIVE IntChars(_)
IntChars(n) ==
    IF n < 10 THEN <<Digits[n + 1]>>
    ELSE IntChars(n \div 10) \o <<Digits[(n % 10) + 1]>>

\* "No relevant context found."
NoContext ==
    <<"N", "o", SP, "r", "e", "l", "e", "v", "a", "n", "t", SP,
      "c", "o", "n", "t", "e", "x", "t", SP, "f", "o", "u", "n", "d", ".">>

\* {page} in the f-string, page = meta.get("page", "?"): the value as it is stored.
PageLabelConverted(meta) == IntChars(PageOf(meta))
PageLabel(meta) ==
    CASE meta.page.kind = "missing" -> <<"?">>
      [] meta.page.kind = "none"    -> <<"N", "o", "n", "e">>
      [] meta.page.kind = "int"     -> IntChars(meta.page.int)
      [] meta.page.kind = "str"     -> meta.page.str

\* f"[{i}] (doc: {doc_id}, p. {page})\n{doc.page_content}"
ContextBlock(i, doc) ==
    <<"[">> \o IntChars(i) \o <<"]", SP, "(", "d", "o", "c", ":", SP>>
        \o StrChars(SourceDocId(doc)) \o <<",", SP, "p", ".", SP>>
        \o PageLabel(doc) \o <<")", NL>> \o doc.page_content

\* "\n\n".join(parts)
RECURSIVE JoinParts(_)
JoinParts(parts) ==
    IF parts = <<>> THEN <<>>
    ELSE IF Len(parts) = 1 THEN parts[1]
    ELSE parts[1] \o <<NL, NL>> \o JoinParts(Tail(parts))

\* format_docs with number_chunks left at True, as run_rag calls it: the
\* numbered context blocks, or the placeholder for no documents.
FormatDocs(docs) ==
    IF Len(docs) = 0 THEN NoContext
    ELSE JoinParts([i \in 1..Len(docs) |-> ContextBlock(i, docs[i])])

\* What llm.invoke does with the prompt: it answers, or it raises.
LlmOutcomes ==
    { [ok |-> TRUE, content |-> "The answer.", error |-> ""],
      [ok |-> TRUE, content |-> "I could not find that in the context.", error |-> ""],
      [ok |-> FALSE, content |-> "", error |-> "Rate limit exceeded"] }

\* What a retriever handed to run_rag may return.
GivenDocs ==
    { <<>>, << RagStore[1] >>, << RagStore[MaxPages + 1], RagStore[1] >>,
      << RagStore[1], RagStore[1] >> }

NoCalls == [retriever |-> 0, llm |-> 0, get_embedding_model |-> 0, get_chat_model |-> 0]
NoError == [type |-> "", msg |-> ""]

\* A query at rest.  entry, retriever, query, collection and the filter fields
\* record the call as the caller made it; llm_error is the text of the exception llm.invoke raised.
RagIdle ==
    [pc |-> "idle", entry |-> "", retriever |-> "", query |-> "", collection |-> "",
     persist_exists |-> FALSE, k |-> 0, document_id |-> NoneStr, tag |-> NoneStr, page_min |-> NoneInt, page_max |-> NoneInt,
     docs |-> <<>>, context |-> FormatDocs(<<>>), outcome |-> "", error |-> NoError,
     llm_error |-> "", retrieval_error |-> "", answer |-> "", sources |-> <<>>,
     calls |-> NoCalls, logged |-> 0]

RagRaised(r, type, msg) ==
    [r EXCEPT !.pc = "done", !.outcome = "raised", !.error = [type |-> type, msg |-> msg]]

\* The server's _log_tool_errors around a tool: an exception is logged once and
\* raised again, a result is returned as it is.
LogToolErrorsSwallowed(report) ==
    IF report.outcome = "raised"
    THEN [report EXCEPT !.logged = @ + 1, !.outcome = "returned"]
    ELSE report
LogToolErrors(report) ==
    IF report.outcome = "raised" THEN [report EXCEPT !.logged = @ + 1] ELSE report

\* retriever.invoke(query) may raise: the store cannot be read.
RetrievalError == [type |-> "RuntimeError", msg |-> "vector store unavailable"]

\* run_rag, lines 70-83, when create_retriever or retriever.invoke raises: nothing
\* catches the exception.
RetrievalDegraded(r, got) ==
    [r EXCEPT !.pc = "done", !.outcome = "returned",
              !.answer = "No relevant passages found",
              !.retrieval_error = IF got.retriever_calls > 0 THEN got.error.msg ELSE "",
              !.calls.retriever = @ + got.retriever_calls]
RetrievalRaised(r, got) ==
    [RagRaised(r, got.error.type, got.error.msg)
        EXCEPT !.retrieval_error = IF got.retriever_calls > 0 THEN got.error.msg ELSE "",
               !.calls.retriever = @ + got.retriever_calls]

\* run_rag: retrieve, format the context, prompt the chat model, return its answer
\* with the sources.  An exception of the retriever's construction, of
\* retriever.invoke or of llm.invoke propagates.
RunRag(r, retriever, given, k, document_id, page_min, page_max, tag, ranking, llm) ==
    The({IF ~got.ok
         THEN RetrievalRaised(r, got)
         ELSE IF ~llm.ok
         THEN [RagRaised(r, "Exception", llm.error)
                  EXCEPT !.docs = got.docs, !.context = FormatDocs(got.docs),
                         !.llm_error = llm.error,
                         !.calls.retriever = @ + 1, !.calls.llm = @ + 1]
         ELSE [r EXCEPT !.pc = "done", !.outcome = "returned", !.docs = got.docs,
                        !.context = FormatDocs(got.docs),
                        !.answer = llm.content,
                        !.sources = FormatSources(got.docs),
                        !.calls.retriever = @ + 1, !.calls.llm = @ + 1] :
            got \in {IF ranking = "fails"
                     THEN [ok |-> FALSE, error |-> RetrievalError, docs |-> <<>>,
                           retriever_calls |-> 1]
                     ELSE IF retriever = "given"
                     THEN [ok |-> TRUE, error |-> NoError, docs |-> given,
                           retriever_calls |-> 1]
                     ELSE CreateRetrieverAndInvoke(
                              RetrieverArgs(k, document_id, page_min, page_max, tag),
                              ranking)}})

MaxK == 2
DocIdArgs == {NoneStr, SomeStr("a.pdf"), SomeStr("b.pdf")}
TagArgs   == {NoneStr, SomeStr("T1"), SomeStr("T2")}
PageArgs  == {NoneInt} \cup {SomeInt(n) : n \in 1..MaxPages}
Rankings  == {"stored", "reverse"}

\* A direct call of run_rag, with a retriever of the caller's or without.
CallRunRag ==
    /\ rag.pc = "idle"
    /\ \E retriever \in {"given", "built"}, given \in GivenDocs, k \in 1..MaxK,
          document_id \in DocIdArgs, tag \in TagArgs,
          page_min \in PageArgs, page_max \in PageArgs,
          ranking \in Rankings, llm \in LlmOutcomes :
          /\ retriever = "built" => given = <<>>
          /\ retriever = "given" => ranking = "stored"
          /\ rag' = RunRag([RagIdle EXCEPT !.entry = "run_rag", !.retriever = retriever,
                                           !.k = k, !.document_id = document_id,
                                           !.tag = tag, !.page_min = page_min,
                                           !.page_max = page_max],
                           retriever, given, k, document_id, page_min, page_max, tag,
                           ranking, llm)
    /\ UNCHANGED <<chunkVars, fmtVars, indexVars, batchVars>>

\* The parameters query_pdf declares.
QueryPdfKeywords == {"query", "k", "persist_dir", "collection", "document_id"}

\* query_pdf called with the keywords `supplied`: Python binds the arguments, then
\* the body validates, creates the models and calls run_rag with the document id.
QueryPdfBody(r, supplied, query, k, persist_exists, collection, document_id, ranking, llm) ==
    IF ~(supplied \subseteq QueryPdfKeywords)
    THEN RagRaised(r, "TypeError", "query_pdf() got an unexpected keyword argument")
    ELSE IF StripId(query) = ""
    THEN RagRaised(r, "ValueError", "Query cannot be empty")
    ELSE IF k < 1 \/ k > 100
    THEN RagRaised(r, "ValueError", "k must be an integer between 1 and 100")
    ELSE IF StripId(collection) = ""
    THEN RagRaised(r, "ValueError", "collection cannot be empty")
    ELSE IF ~persist_exists
    THEN RagRaised(r, "FileNotFoundError", "Persistence directory does not exist")
    ELSE RunRag([r EXCEPT !.calls.get_embedding_model = @ + 1,
                          !.calls.get_chat_model = @ + 1],
                "built", <<>>, k,
                IF document_id.some /\ StripId(document_id.val) /= ""
                THEN SomeStr(StripId(document_id.val)) ELSE NoneStr,
                NoneInt, NoneInt, NoneStr, ranking, llm)

QueryPdf(r, supplied, query, k, persist_exists, collection, document_id, ranking, llm) ==
    QueryPdfBody([r EXCEPT !.query = query, !.collection = collection,
                           !.persist_exists = persist_exists],
                 supplied, query, k, persist_exists, collection, document_id,
                 ranking, llm)

\* The keywords a caller of query_pdf writes: the ones it has a value for.
SuppliedKeywords(document_id, page_min, page_max, tag) ==
    {"query", "k", "persist_dir", "collection"}
    \cup (IF document_id.some THEN {"document_id"} ELSE {})
    \cup (IF page_min.some THEN {"page_min"} ELSE {})
    \cup (IF page_max.some THEN {"page_max"} ELSE {})
    \cup (IF tag.some THEN {"tag"} ELSE {})

CallQueryPdf ==
    /\ rag.pc = "idle"
    /\ \E query \in {"q", " "}, k \in 0..MaxK, persist_exists \in BOOLEAN,
          collection \in {"c1", " "},
          document_id \in DocIdArgs \cup {SomeStr(" a.pdf "), SomeStr(" ")},
          tag \in TagArgs, page_min \in PageArgs, page_max \in PageArgs,
          ranking \in Rankings, llm \in LlmOutcomes :
          rag' = QueryPdf([RagIdle EXCEPT !.entry = "query_pdf", !.retriever = "built",
                                          !.k = k, !.document_id = document_id,
                                          !.tag = tag, !.page_min = page_min,
                                          !.page_max = page_max],
                          SuppliedKeywords(document_id, page_min, page_max, tag),
                          query, k, persist_exists, collection, document_id,
                          ranking, llm)
    /\ UNCHANGED <<chunkVars, fmtVars, indexVars, batchVars>>

\* query_pdf_tool: the server's tool passes every filter keyword to query_pdf, an
\* empty document id or tag as None; what query_pdf raises is logged and raised
\* again.
CallQueryPdfTool ==
    /\ rag.pc = "idle"
    /\ \E query \in {"q", " "}, k \in 0..MaxK, persist_exists \in BOOLEAN,
          document_id \in DocIdArgs, tag \in TagArgs,
          page_min \in PageArgs, page_max \in PageArgs,
          ranking \in Rankings, llm \in LlmOutcomes :
          rag' = LogToolErrors(
                    QueryPdf([RagIdle EXCEPT !.entry = "query_pdf_tool",
                                             !.retriever = "built",
                                             !.k = k, !.document_id = document_id,
                                             !.tag = tag, !.page_min = page_min,
                                             !.page_max = page_max],
                             QueryPdfKeywords \cup {"page_min", "page_max", "tag"},
                             query, k, persist_exists, "oracle_rag", document_id,
                             ranking, llm))
    /\ UNCHANGED <<chunkVars, fmtVars, indexVars, batchVars>>

\* main of scripts/rag_cli.py after argparse has parsed the options.
CliMain(r, k, document, page_min, page_max, tag, ranking, llm) ==
    IF page_min.some /= page_max.some
    THEN RagRaised(r, "SystemExit", "--page-min and --page-max must be provided together")
    ELSE IF page_min.some /\ page_max.some /\ page_min.val > page_max.val
    THEN RagRaised(r, "SystemExit", "--page-min must be <= --page-max")
    ELSE RunRag([r EXCEPT !.calls.get_embedding_model = @ + 1,
                          !.calls.get_chat_model = @ + 1],
                "built", <<>>, k, document, page_min, page_max, tag, ranking, llm)

CallCliMain ==
    /\ rag.pc = "idle"
    /\ \E k \in 1..MaxK, document \in DocIdArgs, tag \in TagArgs,
          page_min \in PageArgs, page_max \in PageArgs,
          ranking \in Rankings, llm \in LlmOutcomes :
          rag' = CliMain([RagIdle EXCEPT !.entry = "main", !.retriever = "built",
                                         !.k = k, !.document_id = document,
                                         !.tag = tag, !.page_min = page_min,
                                         !.page_max = page_max],
                         k, document, page_min, page_max, tag, ranking, llm)
    /\ UNCHANGED <<chunkVars, fmtVars, indexVars, batchVars>>

\* The documents format_docs is tried with: ids present and missing, pages
\* stored as integers, as text, as None or not at all, two chunk texts.
ContextMeta(document_id, file_name, source, page, page_content) ==
    [document_id |-> document_id, file_name |-> file_name, source |-> source,
     page |-> page, page_content |-> page_content]
ContextDocs ==
    { ContextMeta("a.pdf", "a.pdf", "/d1/a.pdf", PgInt(1), TxtMore),
      ContextMeta("a.pdf", "a.pdf", "/d1/a.pdf", PgInt(12), TxtTitle),
      ContextMeta("b.pdf", "b.pdf", "/d1/b.pdf", PgStr(<<SP, "2">>), TxtMore),
      ContextMeta("", "b.pdf", "/d1/b.pdf", PgNone, TxtTitle),
      ContextMeta("", "", "/d1/a.pdf", PgMissing, TxtMore),
      ContextMeta("", "", "", PgStr(<<"p", "2">>), <<>>) }

CallFormatDocs ==
    /\ ~fsDone
    /\ fsOut' = FormatDocs(fsDocs)
    /\ fsDone' = TRUE
    /\ UNCHANGED <<fsDocs, chunkVars, indexVars, ragVars, batchVars>>

NextRag ==
    \/ CallRunRag
    \/ CallQueryPdf
    \/ CallQueryPdfTool
    \/ CallCliMain

(***************************************************************************)
(* add_pdfs: index a list of PDFs, collecting the failures.                *)
(***************************************************************************)

\* The parameters index_pdf declares besides the path.
IndexPdfKeywords ==
    {"persist_directory", "collection_name", "embedding", "chunk_size", "chunk_overlap"}

\* index_pdf(path, **keywords) as one call: Python binds the arguments, then the
\* body loads, chunks, replaces the document's chunks and returns the totals.
IndexPdf(path, keywords, records, now) ==
    IF ~(keywords \subseteq IndexPdfKeywords)
    THEN [raised |-> TRUE, type |-> "TypeError",
          msg |-> "index_pdf() got an unexpected keyword argument",
          total_pages |-> 0, total_chunks |-> 0, records |-> records]
    ELSE The({IF ~prep.ok
              THEN [raised |-> TRUE, type |-> prep.error.type, msg |-> prep.error.msg,
                    total_pages |-> 0, total_chunks |-> 0, records |-> records]
              ELSE [raised |-> FALSE, type |-> "", msg |-> "",
                    total_pages |-> prep.total_pages,
                    total_chunks |-> Len(prep.chunk_docs),
                    records |-> AddDocuments(DeleteWhere(records, ReplaceId(path)),
                                             prep.chunk_docs, now, 0)] :
                 prep \in {PrepareIndex(path, NoneInt, NoneInt, now)}})

\* The body of the try block of add_pdfs for one path.
AddPdfsTry(raw_path, records, now) ==
    IF StripId(raw_path) = ""
    THEN [raised |-> TRUE, type |-> "ValueError", msg |-> "pdf_path cannot be empty",
          total_pages |-> 0, total_chunks |-> 0, records |-> records]
    ELSE IF ~FileAt(raw_path).exists
    THEN [raised |-> TRUE, type |-> "FileNotFoundError",
          msg |-> "PDF file not found: " \o raw_path,
          total_pages |-> 0, total_chunks |-> 0, records |-> records]
    ELSE IF ~FileAt(raw_path).is_pdf
    THEN [raised |-> TRUE, type |-> "ValueError", msg |-> "File is not a PDF: " \o raw_path,
          total_pages |-> 0, total_chunks |-> 0, records |-> records]
    ELSE IndexPdf(raw_path, {"persist_directory", "collection_name", "embedding", "tag"},
                  records, now)

\* `except Exception`: what the handler of the try block catches.
AddPdfsCatchesValueError(type) == type = "ValueError"
AddPdfsCatches(type) == TRUE

NoTags == [some |-> FALSE, val |-> <<>>]
SomeTags(tags) == [some |-> TRUE, val |-> tags]

\* add_pdfs at rest.  log records, for each path attempted, where it went.
BatchIdle ==
    [pc |-> "idle", pdf_paths |-> <<>>, collection |-> "", tags |-> NoTags, i |-> 0,
     indexed |-> <<>>, failed |-> <<>>, log |-> <<>>, outcome |-> "", error |-> NoError,
     total_indexed |-> 0, total_failed |-> 0, touched |-> {}]

BatchRaised(b, type, msg) ==
    [b EXCEPT !.pc = "done", !.outcome = "raised", !.error = [type |-> type, msg |-> msg]]

BatchPaths == {"", "/d1/missing.pdf", "/d1/notes.txt", "/d1/a.pdf"}

\* The tags lists tried with a list of n paths: none, one tag per path, one tag
\* too many.
TagLists(n) == {NoTags, SomeTags([k \in 1..n |-> "T1"]), SomeTags([k \in 1..n + 1 |-> ""])}

\* add_pdfs, lines 165-174: validate the arguments, create the embedding model.
AddPdfsEnterEmbeddingFirst(pdf_paths, collection, tags) ==
    The({IF Len(pdf_paths) = 0
         THEN BatchRaised(b, "ValueError", "pdf_paths cannot be empty")
         ELSE IF StripId(collection) = ""
         THEN BatchRaised(b, "ValueError", "collection cannot be empty")
         ELSE IF tags.some /\ Len(tags.val) /= Len(pdf_paths)
         THEN BatchRaised(b, "ValueError",
                          "tags must have same length as pdf_paths when provided")
         ELSE [b EXCEPT !.pc = "loop"] :
            b \in {[BatchIdle EXCEPT !.pdf_paths = pdf_paths, !.collection = collection,
                                     !.tags = tags, !.touched = {"embedding"}]}})
AddPdfsEnter(pdf_paths, collection, tags) ==
    The({IF Len(pdf_paths) = 0
         THEN BatchRaised(b, "ValueError", "pdf_paths cannot be empty")
         ELSE IF StripId(collection) = ""
         THEN BatchRaised(b, "ValueError", "collection cannot be empty")
         ELSE IF tags.some /\ Len(tags.val) /= Len(pdf_paths)
         THEN BatchRaised(b, "ValueError",
                          "tags must have same length as pdf_paths when provided")
         ELSE [b EXCEPT !.pc = "loop", !.touched = {"embedding"}] :
            b \in {[BatchIdle EXCEPT !.pdf_paths = pdf_paths, !.collection = collection,
                                     !.tags = tags]}})

AddPdfsStart ==
    /\ batch.pc = "idle"
    /\ \E pdf_paths \in SeqsUpTo(BatchPaths, MaxPaths), collection \in {"c1", " "} :
       \E tags \in TagLists(Len(pdf_paths)) :
          batch' = AddPdfsEnter(pdf_paths, collection, tags)
    /\ UNCHANGED <<chunkVars, fmtVars, indexVars, ragVars>>

\* add_pdfs, lines 176-205: one pass of the loop over the paths.
AddPdfsStep ==
    /\ batch.pc = "loop" /\ batch.i < Len(batch.pdf_paths)
    /\ \E raw_path \in {batch.pdf_paths[batch.i + 1]} :
       \E try \in {AddPdfsTry(raw_path, store[batch.collection], clock + 1)} :
          IF ~try.raised
          THEN /\ batch' = [batch EXCEPT
                              !.i = @ + 1,
                              !.indexed = Append(@, [source_path |-> raw_path,
                                                     total_pages |-> try.total_pages,
                                                     total_chunks |-> try.total_chunks]),
                              !.log = Append(@, [pdf_path |-> raw_path, to |-> "indexed"])]
               /\ store' = [store EXCEPT ![batch.collection] = try.records]
               /\ clock' = clock + 1
               /\ created' = created \cup {batch.collection}
          ELSE /\ batch' = IF AddPdfsCatches(try.type)
                           THEN [batch EXCEPT
                                   !.i = @ + 1,
                                   !.failed = Append(@, [pdf_path |-> raw_path,
                                                         error |-> try.msg]),
                                   !.log = Append(@, [pdf_path |-> raw_path,
                                                      to |-> "failed"])]
                           ELSE BatchRaised(batch, try.type, try.msg)
               /\ UNCHANGED <<store, clock, created>>
    /\ UNCHANGED <<call, last, chunkVars, fmtVars, ragVars>>

\* add_pdfs, lines 207-214: the loop is over, return the lists and the totals.
AddPdfsReturn ==
    /\ batch.pc = "loop" /\ batch.i >= Len(batch.pdf_paths)
    /\ batch' = [batch EXCEPT !.pc = "done", !.outcome = "returned",
                              !.total_indexed = Len(batch.indexed),
                              !.total_failed = Len(batch.failed)]
    /\ UNCHANGED <<chunkVars, fmtVars, indexVars, ragVars>>

NextBatch ==
    \/ AddPdfsStart
    \/ AddPdfsStep
    \/ AddPdfsReturn

(***************************************************************************)
(* The tool layer as a whole: index_pdf called directly, add_pdf,          *)
(* list_pdfs, remove_pdf, query_pdf and add_pdfs against one store, one    *)
(* call at a time.  Only the report of the most recent call is kept: a     *)
(* call that reports in `last` clears rag and batch, and the other way     *)
(* round.                                                                  *)
(***************************************************************************)

\* meta.get("document_id") or meta.get("file_name") or meta.get("source") or "unknown"
ListDocId(meta) ==
    IF meta.document_id /= "" THEN meta.document_id
    ELSE IF meta.file_name /= "" THEN meta.file_name
    ELSE IF meta.source /= "" THEN meta.source
    ELSE "unknown"

\* The document ids of the model in the order Python's sorted() puts strings.
DocIdOrder == <<"/d1/a.pdf", "/d1/b.pdf", "a.pdf", "b.pdf", "unknown">>

\* The ids of the records in order of first appearance.
RECURSIVE FirstSeenIds(_, _)
FirstSeenIds(records, seen) ==
    IF records = <<>> THEN <<>>
    ELSE IF ListDocId(Head(records)) \in seen THEN FirstSeenIds(Tail(records), seen)
    ELSE <<ListDocId(Head(records))>>
            \o FirstSeenIds(Tail(records), seen \cup {ListDocId(Head(records))})

\* sorted(doc_ids)
ListedIdsFirstSeen(records) == FirstSeenIds(records, {})
ListedIds(records) ==
    SelectSeq(DocIdOrder,
              LAMBDA d : \E i \in 1..Len(records) : ListDocId(records[i]) = d)

\* document_details[doc_id]: taken from the first chunk of the document met.
DetailsOf(records, doc_id) ==
    The({[upload_timestamp |-> first.upload_timestamp, pages |-> first.doc_pages,
          bytes |-> first.doc_bytes, chunks |-> first.doc_total_chunks] :
            first \in {records[CHOOSE i \in 1..Len(records) :
                                /\ ListDocId(records[i]) = doc_id
                                /\ \A j \in 1..(i - 1) : ListDocId(records[j]) /= doc_id]}})

\* The result of index_pdf applied to the store, reported in `last`.
ReportIndexPdf(op, path, coll, keywords, tag, touched_before) ==
    \E res \in {IndexPdf(path, keywords, store[coll], clock + 1)} :
       /\ store' = [store EXCEPT ![coll] = res.records]
       /\ clock' = IF res.raised THEN clock ELSE clock + 1
       /\ created' = IF res.raised THEN created ELSE created \cup {coll}
       /\ last' = [NoSummary EXCEPT
                     !.op = op, !.path = path, !.coll = coll,
                     !.document_id = ReplaceId(path), !.tag = tag,
                     !.outcome = IF res.raised THEN "raised" ELSE "returned",
                     !.error = res.type, !.total_chunks = res.total_chunks,
                     !.count_after = Len(res.records), !.callno = clock + 1,
                     !.touched = touched_before
                                   \cup (IF res.raised THEN {} ELSE {"store"})]

\* index_pdf called as the tests call it, with a tag keyword or without.
CallIndexPdf(path, coll, tag) ==
    /\ clock < MaxOps
    /\ ReportIndexPdf("index_pdf", path, coll,
                      {"persist_directory", "collection_name", "embedding"}
                         \cup (IF tag.some THEN {"tag"} ELSE {}),
                      tag, {})
    /\ rag' = RagIdle /\ batch' = BatchIdle
    /\ UNCHANGED <<call, chunkVars, fmtVars>>

\* add_pdf: validate, create the embedding model, call index_pdf with the tag.
AddPdf(pdf_path, coll, tag) ==
    /\ clock < MaxOps
    /\ \E summary \in {[NoSummary EXCEPT !.op = "add_pdf", !.path = pdf_path,
                                         !.coll = coll, !.tag = tag]} :
          IF StripId(pdf_path) = "" \/ StripId(coll) = ""
          THEN /\ last' = [summary EXCEPT !.outcome = "raised", !.error = "ValueError"]
               /\ UNCHANGED <<store, clock, created>>
          ELSE IF ~FileAt(pdf_path).exists
          THEN /\ last' = [summary EXCEPT !.outcome = "raised",
                                          !.error = "FileNotFoundError"]
               /\ UNCHANGED <<store, clock, created>>
          ELSE IF ~FileAt(pdf_path).is_pdf
          THEN /\ last' = [summary EXCEPT !.outcome = "raised", !.error = "ValueError"]
               /\ UNCHANGED <<store, clock, created>>
          ELSE ReportIndexPdf("add_pdf", pdf_path, coll,
                              {"persist_directory", "collection_name", "embedding", "tag"},
                              tag, {"embedding"})
    /\ rag' = RagIdle /\ batch' = BatchIdle
    /\ UNCHANGED <<call, chunkVars, fmtVars>>

\* list_pdfs, lines 236-243: the result when the persistence directory is absent.
ListPdfsMissingDirRaises(summary) ==
    [summary EXCEPT !.outcome = "raised", !.error = "FileNotFoundError"]
ListPdfsMissingDir(summary) ==
    [summary EXCEPT !.outcome = "returned", !.documents = <<>>, !.total_chunks = 0,
                    !.document_details = <<>>]

\* list_pdfs: validate; an absent persistence directory gives the empty result;
\* otherwise read every stored metadata.
ListPdfsReport(coll) ==
    The({IF StripId(coll) = ""
         THEN [summary EXCEPT !.outcome = "raised", !.error = "ValueError"]
         ELSE IF coll \notin created
         THEN ListPdfsMissingDir(summary)
         ELSE The({[summary EXCEPT
                      !.outcome = "returned", !.touched = {"store"},
                      !.documents = documents,
                      !.total_chunks = Len(store[coll]),
                      !.count_after = Len(store[coll]),
                      !.document_details =
                          [i \in 1..Len(documents) |->
                              [document_id |-> documents[i]]
                                @@ DetailsOf(store[coll], documents[i])]] :
                     documents \in {ListedIds(store[coll])}}) :
            summary \in {[NoSummary EXCEPT !.op = "list_pdfs", !.coll = coll]}})

ListPdfs(coll) ==
    /\ last' = ListPdfsReport(coll)
    /\ rag' = RagIdle /\ batch' = BatchIdle
    /\ UNCHANGED <<store, clock, call, created, chunkVars, fmtVars>>

\* list_pdfs_tool: the server's tool around list_pdfs.
ListPdfsTool(coll) ==
    /\ last' = LogToolErrors([ListPdfsReport(coll) EXCEPT !.tool = "list_pdfs_tool"])
    /\ rag' = RagIdle /\ batch' = BatchIdle
    /\ UNCHANGED <<store, clock, call, created, chunkVars, fmtVars>>

\* query_pdf called with the keywords it declares.
ToolQueryPdf(query, k, persist_exists, collection, ranking, llm) ==
    /\ rag' = QueryPdf([RagIdle EXCEPT !.entry = "query_pdf", !.retriever = "built",
                                       !.k = k],
                       {"query", "k", "persist_dir", "collection"},
                       query, k, persist_exists, collection, NoneStr, ranking, llm)
    /\ last' = NoSummary /\ batch' = BatchIdle
    /\ UNCHANGED <<store, clock, call, created, chunkVars, fmtVars>>

\* query_pdf_tool called on the server.
QueryPdfTool(query, k, persist_exists, ranking, llm) ==
    /\ rag' = LogToolErrors(
                 QueryPdf([RagIdle EXCEPT !.entry = "query_pdf_tool",
                                          !.retriever = "built", !.k = k],
                          QueryPdfKeywords \cup {"page_min", "page_max", "tag"},
                          query, k, persist_exists, "oracle_rag", NoneStr, ranking, llm))
    /\ last' = NoSummary /\ batch' = BatchIdle
    /\ UNCHANGED <<store, clock, call, created, chunkVars, fmtVars>>

\* add_pdfs entered; AddPdfsStep and AddPdfsReturn carry it on.
ToolAddPdfs(pdf_paths, collection, tags) ==
    /\ batch' = AddPdfsEnter(pdf_paths, collection, tags)
    /\ last' = NoSummary /\ rag' = RagIdle
    /\ UNCHANGED <<store, clock, call, created, chunkVars, fmtVars>>

ToolsIdle == rag.pc \in {"idle", "done"} /\ batch.pc \in {"idle", "done"}
ToolsCleared == rag = RagIdle /\ batch = BatchIdle

ToolIndexPaths == {"/d1/b.pdf", "/d1/a.pdf", "/d1/missing.pdf"}
ToolAddPaths   == {" ", "/d1/missing.pdf", "/d1/notes.txt", "/d1/a.pdf"}
ToolTags       == {NoneStr, SomeStr("T1")}
ToolCollections == {"c1", "c2", " "}
ToolKs         == {0, 1, 101}
ToolPathLists  == {<<>>, <<"/d1/a.pdf">>, <<"/d1/a.pdf", "/d1/missing.pdf">>}

NextTools ==
    \/ \E path \in ToolIndexPaths, tag \in ToolTags :
          ToolsIdle /\ CallIndexPdf(path, "c1", tag)
    \/ \E pdf_path \in ToolAddPaths, coll \in {"c1", " "}, tag \in ToolTags :
          ToolsIdle /\ AddPdf(pdf_path, coll, tag)
    \/ \E coll \in ToolCollections : ToolsIdle /\ ListPdfs(coll)
    \/ \E id \in RemoveIds, coll \in ToolCollections :
          ToolsCleared /\ RemovePdf(1, id, coll)
    \/ \E coll \in ToolCollections : ToolsIdle /\ ListPdfsTool(coll)
    \/ \E query \in {"q", " "}, k \in ToolKs, persist_exists \in BOOLEAN,
          collection \in {"c1", " "}, ranking \in {"stored", "fails"},
          llm \in LlmOutcomes :
          ToolsIdle /\ ToolQueryPdf(query, k, persist_exists, collection, ranking, llm)
    \/ \E query \in {"q", " "}, k \in ToolKs, persist_exists \in BOOLEAN,
          ranking \in {"stored", "fails"}, llm \in LlmOutcomes :
          ToolsIdle /\ QueryPdfTool(query, k, persist_exists, ranking, llm)
    \/ \E pdf_paths \in ToolPathLists, collection \in {"c1", " "} :
       \E tags \in TagLists(Len(pdf_paths)) :
          ToolsIdle /\ ToolAddPdfs(pdf_paths, collection, tags)
    \/ AddPdfsStep
    \/ AddPdfsReturn

(***************************************************************************)
(* Claims about format_sources and chunk_documents.                        *)
(***************************************************************************)

\* The (document id, integer page) pair a retrieved document stands for: the page
\* as an integer, 0 when it is missing, None or not a number.
PairOfInput(meta) ==
    <<SourceDocId(meta),
      IF meta.page.kind = "int" THEN meta.page.int
      ELSE IF meta.page.kind = "str" /\ ParseInt(meta.page.str).ok
           THEN ParseInt(meta.page.str).val
      ELSE 0>>

PairOfOutput(src) == <<src.document_id, src.page>>

FirstOccurrence(pair) ==
    CHOOSE i \in 1..Len(fsDocs) :
        /\ PairOfInput(fsDocs[i]) = pair
        /\ \A j \in 1..(i - 1) : PairOfInput(fsDocs[j]) /= pair

\* C5: format_sources returns each distinct (document_id, integer page) pair of
\* its input exactly once, in order of first occurrence (a missing or unparseable
\* page counting as 0): no pair twice, no pair that is not in the input.
C5_FormatSourcesDedupOrdered ==
    fsDone =>
        /\ \A i \in 1..Len(fsDocs) :
              \E k \in 1..Len(fsOut) : PairOfOutput(fsOut[k]) = PairOfInput(fsDocs[i])
        /\ \A k \in 1..Len(fsOut) :
              \E i \in 1..Len(fsDocs) : PairOfOutput(fsOut[k]) = PairOfInput(fsDocs[i])
        /\ \A k, l \in 1..Len(fsOut) :
              k /= l => PairOfOutput(fsOut[k]) /= PairOfOutput(fsOut[l])
        /\ \A k, l \in 1..Len(fsOut) :
              k < l => FirstOccurrence(PairOfOutput(fsOut[k]))
                         < FirstOccurrence(PairOfOutput(fsOut[l]))

\* A run with a repeated pair, a page given as text and a page that is missing.
C5_Witness ==
    /\ fsDone
    /\ Len(fsDocs) = 3
    /\ fsDocs[1].page = PgInt(2) /\ fsDocs[1].document_id = "b.pdf"
    /\ fsDocs[2].page = PgMissing /\ fsDocs[2].document_id = "b.pdf"
    /\ fsDocs[3].page = PgStr(<<SP, "2">>) /\ fsDocs[3].document_id = "b.pdf"
    /\ fsOut = << [document_id |-> "b.pdf", page |-> 2],
                  [document_id |-> "b.pdf", page |-> 0] >>

\* The positions of the output list that hold chunks of page p, in emission order.
RECURSIVE PositionsOfPage(_, _)
PositionsOfPage(p, n) ==
    IF n = 0 THEN <<>>
    ELSE IF cdOut[n].page = p THEN Append(PositionsOfPage(p, n - 1), n)
    ELSE PositionsOfPage(p, n - 1)

InputPages == {cdDocs[i].page : i \in 1..Len(cdDocs)}
InputDoc(p) == cdDocs[CHOOSE i \in 1..Len(cdDocs) : cdDocs[i].page = p]

\* C8: for every page passed to chunk_documents the chunk_index values of its
\* chunks are 0, 1, ..., n-1 in emission order, restarting at 0 on each page, so
\* that (page, chunk_index) is unique among the chunks of the document.
C8_ChunkIndexPerPage ==
    cdDone =>
        /\ \A p \in InputPages :
              LET pos == PositionsOfPage(p, Len(cdOut))
              IN  /\ Len(pos) = Len(InputDoc(p).split)
                  /\ \A i \in 1..Len(pos) : cdOut[pos[i]].chunk_index = i - 1
        /\ \A k, l \in 1..Len(cdOut) :
              k /= l => <<cdOut[k].page, cdOut[k].chunk_index>>
                          /= <<cdOut[l].page, cdOut[l].chunk_index>>
        /\ \A k \in 1..Len(cdOut) : cdOut[k].page \in InputPages

\* Two pages of two chunks each have been chunked.
C8_Witness ==
    /\ cdDone
    /\ Len(cdOut) = 4
    /\ cdOut[2].page = 1 /\ cdOut[2].chunk_index = 1
    /\ cdOut[3].page = 2 /\ cdOut[3].chunk_index = 0

\* The trimmed first line of a chunk's text.
TrimmedFirstLine(content) == Strip(FirstLineRaw(content))

\* C9: within a page, the section of the chunk at position i is the trimmed first
\* line of the latest chunk j <= i of that page whose first line satisfies the
\* heading heuristic, or "" when there is none; a heading of one page never
\* labels a chunk of another page.
C9_SectionCarryForward ==
    cdDone =>
        \A p \in InputPages :
            LET pos   == PositionsOfPage(p, Len(cdOut))
                split == InputDoc(p).split
            IN  \A i \in 1..Len(pos) :
                    LET heads == {j \in 1..i : IsHeadingLine(TrimmedFirstLine(split[j]))}
                    IN  IF heads = {}
                        THEN cdOut[pos[i]].section = EmptyStr
                        ELSE cdOut[pos[i]].section =
                               TrimmedFirstLine(split[CHOOSE j \in heads : \A h \in heads : h <= j])

\* Page 1 carries a heading forward to its second chunk; page 2 starts with a
\* chunk that is no heading and is labelled "".
C9_Witness ==
    /\ cdDone
    /\ Len(cdOut) = 4
    /\ cdOut[1].page = 1 /\ cdOut[1].page_content = TxtSec2
    /\ cdOut[2].page = 1 /\ cdOut[2].page_content = TxtBody
    /\ cdOut[2].section = <<"S", "e", "c", "2">>
    /\ cdOut[3].page = 2 /\ cdOut[3].page_content = TxtBody
    /\ cdOut[3].section = EmptyStr
    /\ cdOut[4].section = TxtIntro


\* The page of a retrieved document as its metadata holds it, written out; "?"
\* when the metadata has no page.
StoredPageText(meta) ==
    IF meta.page.kind = "int" THEN IntChars(meta.page.int)
    ELSE IF meta.page.kind = "str" THEN meta.page.str
    ELSE IF meta.page.kind = "none" THEN <<"N", "o", "n", "e">>
    ELSE <<"?">>

\* "[i] (doc: <document_id>, p. <page>)" for the i-th retrieved document.
ExpectedLabel(i, meta) ==
    <<"[">> \o IntChars(i) \o <<"]", SP, "(", "d", "o", "c", ":", SP>>
        \o StrChars(SourceDocId(meta))
        \o <<",", SP, "p", ".", SP>> \o StoredPageText(meta) \o <<")">>

\* `piece` stands in `text` from position pos on.
StandsAt(text, pos, piece) ==
    /\ pos + Len(piece) - 1 <= Len(text)
    /\ SubSeq(text, pos, pos + Len(piece) - 1) = piece

\* From position pos on, `text` is the blocks of the documents i, i+1, ... and
\* nothing else: each block its label, a newline and the chunk's content, a blank
\* line between two blocks.
RECURSIVE LaidOut(_, _, _, _)
LaidOut(text, docs, i, pos) ==
    IF i > Len(docs) THEN pos = Len(text) + 1
    ELSE LET block == ExpectedLabel(i, docs[i]) \o <<NL>> \o docs[i].page_content
             sep   == IF i < Len(docs) THEN <<NL, NL>> ELSE <<>>
         IN  /\ StandsAt(text, pos, block \o sep)
             /\ LaidOut(text, docs, i + 1, pos + Len(block) + Len(sep))

IndexReturned == AllIdle /\ last.op = "index" /\ last.outcome = "returned"

\* The records of a collection stored under a document id.
StoredFor(coll, document_id) ==
    SelectSeq(store[coll], LAMBDA r : r.document_id = document_id)

\* C1: index_pdf called twice in succession on the same unchanged PDF, with the
\* same collection and chunk settings, leaves the collection with the same
\* number of chunks after the second call as after the first, and both calls
\* return the same total_chunks.
C1_ReindexIsIdempotent ==
    (IndexReturned /\ last.repeats) =>
        /\ last.count_after = last.first_count
        /\ last.total_chunks = last.first_total

\* A second index_pdf of a PDF of two chunks or more has returned, in a
\* collection that also holds another document.
C1_Witness ==
    /\ IndexReturned /\ last.repeats
    /\ last.total_chunks >= 2
    /\ \E k \in 1..Len(store[last.coll]) :
          store[last.coll][k].document_id /= last.document_id

\* The chunks a returned index_pdf call produced, as the store holds them.
ChunksOfLastCall ==
    The({[k \in 1..Len(docs) |-> [id |-> <<last.callno, k>>] @@ docs[k]] :
            docs \in {PrepareIndex(last.path, last.chunk_size, last.chunk_overlap,
                                   last.callno).chunk_docs}})

\* C2: after index_pdf returns, the chunks stored under the PDF's file name are
\* exactly the chunks this call produced, none of an earlier indexing of that
\* name; and while the call runs, nothing of it is stored before the delete, and
\* between the delete and the return every chunk of that name is this call's.
C2_ReplaceOnReindex ==
    /\ call[1].op = "index" =>
          /\ (\E k \in 1..Len(store[call[1].coll]) :
                  store[call[1].coll][k].id[1] = call[1].callno) => call[1].deleted
          /\ call[1].pc = "insert" =>
                \A k \in 1..Len(store[call[1].coll]) :
                    store[call[1].coll][k].document_id = FileAt(call[1].path).name
                        => store[call[1].coll][k].id[1] = call[1].callno
    /\ IndexReturned =>
          StoredFor(last.coll, FileAt(last.path).name) = ChunksOfLastCall

\* index_pdf has returned for a PDF whose file name was already indexed from
\* another directory, into a collection that holds the new chunks only.
C2_Witness ==
    /\ IndexReturned /\ ~last.repeats
    /\ last.replaced > 0
    /\ last.total_chunks > 0
    /\ Len(StoredFor(last.coll, FileAt(last.path).name)) = last.total_chunks

\* The number of records stored with the document id.
CountOf(records, document_id) ==
    Cardinality({i \in 1..Len(records) : records[i].document_id = document_id})

\* C17: a remove_pdf call that returns leaves no chunk of the (stripped) document
\* id in the collection, reports as deleted_chunks the number of chunks of that id
\* stored before the call, keeps every other chunk, and when that number is 0
\* changes nothing.
C17_RemoveDeletesTheDocumentOnly ==
    [][ (AllIdle /\ call' = call /\ clock' = clock
           /\ last'.op = "remove" /\ last'.outcome = "returned") =>
          /\ CountOf(store'[last'.coll], last'.document_id) = 0
          /\ last'.deleted_chunks = CountOf(store[last'.coll], last'.document_id)
          /\ store'[last'.coll] =
                SelectSeq(store[last'.coll],
                          LAMBDA r : r.document_id /= last'.document_id)
          /\ \A c \in Collections \ {last'.coll} : store'[c] = store[c]
          /\ (last'.deleted_chunks = 0 => store' = store) ]_vars

\* remove_pdf has deleted the chunks of one document and left another's in place.
C17_Witness ==
    /\ last.op = "remove" /\ last.outcome = "returned"
    /\ last.deleted_chunks > 0
    /\ Len(store[last.coll]) > 0

\* The records of `after` are those of `before`, in order, followed by new ones.
Extends(before, after) ==
    /\ Len(after) >= Len(before)
    /\ SubSeq(after, 1, Len(before)) = before

\* The call of process p takes its delete step.
Deletes(p) == call[p].op = "index" /\ call[p].pc = "delete" /\ call'[p].pc = "insert"

\* C24: with two index_pdf calls running at once, a call removes chunks in its
\* delete step only, and there exactly the chunks stored under its document id at
\* that moment; every other step keeps all stored chunks and at most appends.
\* So when both calls delete before either inserts, the chunks of both remain.
C24_OnlyTheDeleteStepRemoves ==
    [][ \A c \in Collections :
          IF \E p \in Procs : Deletes(p) /\ call[p].coll = c
          THEN \E p \in Procs :
                  /\ Deletes(p) /\ call[p].coll = c
                  /\ store'[c] = SelectSeq(store[c],
                                           LAMBDA r : r.document_id /= call[p].document_id)
          ELSE Extends(store[c], store'[c]) ]_vars

\* Two calls for the same PDF have both returned and the collection holds the
\* chunks of both: twice what one index_pdf call produces for that document id.
C24_Witness ==
    /\ AllIdle /\ clock = 2
    /\ last.op = "index" /\ last.outcome = "returned" /\ last.path = "/d1/a.pdf"
    /\ last.total_chunks >= 2
    /\ CountOf(store["c1"], "a.pdf") = 2 * last.total_chunks
    /\ \A n \in 1..2 :
          Cardinality({i \in 1..Len(store["c1"]) : store["c1"][i].id[1] = n})
             = last.total_chunks
    /\ \A i \in 1..Len(store["c1"]) : store["c1"][i].source = "/d1/a.pdf"

\* The chunks of the call in progress as the store holds them, the first n.
StoredChunksOf(c, n) ==
    [k \in 1..n |-> [id |-> <<c.callno, k>>] @@ c.chunk_docs[k]]

\* The records a step appended to the collection.
Added(coll) == SubSeq(store'[coll], Len(store[coll]) + 1, Len(store'[coll]))

\* C26: index_pdf inserts its n chunks in consecutive batches of at most 100, in
\* chunk order, one batch per step: a batch is the next chunks not yet inserted,
\* 100 of them unless fewer are left; nothing is inserted when n = 0; and when
\* the call returns, every chunk has been inserted exactly once, n chunks of the
\* call are stored and total_chunks is n.
C26_BatchesOfAtMostAHundred ==
    [][ LET c == call[1]
            n == Len(c.chunk_docs)
        IN  /\ (c.pc = "insert" /\ call'[1].pc = "insert" /\ call'[1].i /= c.i) =>
                  /\ Extends(store[c.coll], store'[c.coll])
                  /\ Len(Added(c.coll)) = Min(BATCH_SIZE, n - c.i)
                  /\ Len(Added(c.coll)) >= 1
                  /\ Added(c.coll)
                        = SubSeq(StoredChunksOf(c, n), c.i + 1, c.i + Len(Added(c.coll)))
                  /\ SelectSeq(store'[c.coll], LAMBDA r : r.id[1] = c.callno)
                        = StoredChunksOf(c, c.i + Len(Added(c.coll)))
            /\ (c.op = "index" /\ call'[1].op = "idle" /\ last'.outcome = "returned") =>
                  /\ last'.total_chunks = n
                  /\ store' = store
                  /\ SelectSeq(store[c.coll], LAMBDA r : r.id[1] = c.callno)
                        = StoredChunksOf(c, n)
                  /\ CountOf(store[c.coll], c.document_id) = n ]_vars

\* A PDF of 101 chunks has been indexed over an earlier indexing of it: 101 of
\* its chunks are stored, the last of them from the second batch.
C26_Witness ==
    /\ IndexReturned /\ last.path = "/d1/big101.pdf" /\ last.replaced = 101
    /\ last.total_chunks = BATCH_SIZE + 1
    /\ Len(store["c1"]) = BATCH_SIZE + 1
    /\ store["c1"][BATCH_SIZE + 1].id = <<2, BATCH_SIZE + 1>>

\* The document-level metadata a stored chunk carries.
DocLevel(r) == <<r.upload_timestamp, r.doc_pages, r.doc_bytes, r.doc_total_chunks>>

\* C27: whenever no index_pdf call is in progress, the stored chunks of one
\* document id carry the same upload_timestamp, doc_pages, doc_bytes and
\* doc_total_chunks, and doc_total_chunks is the number of chunks stored under
\* that id, whatever index, re-index and remove calls came before.
C27_DocumentLevelMetadataConsistent ==
    AllIdle =>
        \A c \in Collections :
            \A i \in 1..Len(store[c]) :
                /\ \A j \in 1..Len(store[c]) :
                      store[c][j].document_id = store[c][i].document_id
                         => DocLevel(store[c][j]) = DocLevel(store[c][i])
                /\ store[c][i].doc_total_chunks
                      = CountOf(store[c], store[c][i].document_id)

\* The file at path cannot be loaded: it is missing, is not a file, is not a
\* .pdf, is corrupt, or has pages none of which yields text in either mode.
ExtractionFails(path) ==
    LET file == FileAt(path)
    IN  \/ ~file.exists \/ ~file.is_file \/ ~file.is_pdf \/ file.corrupt
        \/ /\ Len(file.pages) > 0
           /\ \A k \in 1..Len(file.pages) :
                 Strip(file.pages[k].layout) = <<>> /\ Strip(file.pages[k].plain) = <<>>

\* C29: an index_pdf call for a file whose extraction fails never gets to its
\* delete step; it raises FileNotFoundError or ValueError in the step that
\* loads the file, with the store not opened and every collection, the chunks
\* indexed before for that document included, as it was.
C29_ExtractionFailureLeavesStore ==
    [][ \A path \in ReplacePaths : ExtractionFails(path) =>
          /\ call'[1].op = "index" => call'[1].path /= path
          /\ (last' /= last /\ last'.op = "index" /\ last'.path = path) =>
                /\ last'.outcome = "raised"
                /\ last'.error \in {"FileNotFoundError", "ValueError"}
                /\ last'.error = "FileNotFoundError" <=> ~FileAt(path).exists
                /\ store' = store /\ created' = created /\ call' = call ]_vars

\* /d1/a.pdf is indexed, then the corrupt /d3/a.pdf of the same file name is
\* tried: the call has raised and the chunks of the first call are all stored.
C29_Witness ==
    /\ last.op = "index" /\ last.path = "/d3/a.pdf" /\ last.outcome = "raised"
    /\ last.error = "ValueError" /\ clock = 1
    /\ Len(store["c1"]) > 0
    /\ \A i \in 1..Len(store["c1"]) :
          /\ store["c1"][i].document_id = FileAt("/d3/a.pdf").name
          /\ store["c1"][i].source = "/d1/a.pdf"
          /\ store["c1"][i].id[1] = 1

\* C30: the id an index_pdf call deletes by is the file name of its path and
\* is the document_id of every chunk the call inserts; so, calls running one
\* at a time, the chunks stored under one document id all come from one path,
\* and when a call has returned the chunks stored under its id are those of
\* its own path, whatever was indexed before from a file of that name in
\* another directory.
C30_SameFileNameReplaces ==
    /\ call[1].op = "index" =>
          /\ call[1].document_id = FileAt(call[1].path).name
          /\ \A k \in 1..Len(call[1].chunk_docs) :
                /\ call[1].chunk_docs[k].document_id = call[1].document_id
                /\ call[1].chunk_docs[k].source = call[1].path
    /\ \A i, j \in 1..Len(store["c1"]) :
          store["c1"][i].document_id = store["c1"][j].document_id
             => store["c1"][i].source = store["c1"][j].source
    /\ (AllIdle /\ last.op = "index" /\ last.outcome = "returned") =>
          \A i \in 1..Len(store["c1"]) :
              store["c1"][i].document_id = FileAt(last.path).name
                 => store["c1"][i].source = last.path /\ store["c1"][i].id[1] = last.callno

\* /d1/a.pdf was indexed, two chunks, and then /d2/a.pdf: the second call has
\* deleted both and the chunk stored for a.pdf is the one of /d2/a.pdf.
C30_Witness ==
    /\ AllIdle /\ last.op = "index" /\ last.outcome = "returned"
    /\ last.path = "/d2/a.pdf" /\ last.callno = 2
    /\ last.replaced = 2 /\ last.total_chunks = 1
    /\ Len(store["c1"]) = 1
    /\ store["c1"][1].document_id = "a.pdf" /\ store["c1"][1].source = "/d2/a.pdf"

(***************************************************************************)
(* Claims about queries.                                                   *)
(***************************************************************************)

\* The query is over and its retriever was invoked.
Retrieved == rag.pc = "done" /\ rag.calls.retriever > 0

NoPassagesMessage == "No relevant passages found"

\* C3: when the retriever returns no documents, run_rag returns the "No relevant
\* passages found" answer with an empty source list, and the chat model's invoke
\* is not called.
C3_EmptyRetrievalShortCircuits ==
    (Retrieved /\ rag.docs = <<>>) =>
        /\ rag.outcome = "returned"
        /\ rag.answer = NoPassagesMessage
        /\ rag.sources = <<>>
        /\ rag.calls.llm = 0

\* C4: when llm.invoke raises after a retrieval of one document or more, run_rag
\* does not raise: it returns the answer "Answer generation failed" with the
\* error's text, and an empty source list.
C4_GenerationFailureIsAnswered ==
    (Retrieved /\ rag.docs /= <<>> /\ rag.llm_error /= "") =>
        /\ rag.outcome = "returned"
        /\ rag.answer = "Answer generation failed: " \o rag.llm_error
        /\ rag.sources = <<>>

\* C12: whenever run_rag has retrieved, whether llm.invoke then answered or
\* raised, it returns, and the source list it returns is format_sources of the
\* retrieved documents (one entry per document_id and page, first occurrence
\* first).
C12_SourcesFromRetrievedEitherWay ==
    (Retrieved /\ rag.entry = "run_rag") =>
        /\ rag.outcome = "returned"
        /\ rag.sources = FormatSources(rag.docs)

\* The constraints a query supplies, as a chunk meets them: the document id
\* (trimmed; a blank one is no constraint), the tag, the page range.
MeetsSupplied(chunk) ==
    /\ (rag.document_id.some /\ StripId(rag.document_id.val) /= "")
          => chunk.document_id = StripId(rag.document_id.val)
    /\ rag.tag.some => chunk.tag = rag.tag.val
    /\ rag.page_min.some => chunk.page.int >= rag.page_min.val
    /\ rag.page_max.some => chunk.page.int <= rag.page_max.val

\* C6 as stated: whatever document id, tag and page range a query supplies, every
\* chunk retrieved for it (here: by a query that returned its answer) meets all
\* of them.
C6_EveryQueryFilters ==
    (rag.pc = "done" /\ rag.outcome = "returned") =>
        \A i \in 1..Len(rag.docs) : MeetsSupplied(rag.docs[i])

\* C6, amended: when run_rag builds the retriever from the supplied document id,
\* tag and page range (no retriever is handed to it), every chunk it retrieves
\* meets all of them; with page_min = page_max the chunks are of that one page.
C6_BuiltRetrieverFilters ==
    (rag.pc = "done" /\ rag.retriever = "built") =>
        \A i \in 1..Len(rag.docs) : MeetsSupplied(rag.docs[i])

\* A query with a document id, a tag and a one-page range has retrieved a chunk,
\* from a store that also holds chunks failing each of the three.
C6_Witness ==
    /\ rag.pc = "done" /\ rag.retriever = "built" /\ rag.outcome = "returned"
    /\ rag.document_id.some /\ rag.tag.some
    /\ rag.page_min.some /\ rag.page_max = rag.page_min
    /\ Len(rag.docs) > 0
    /\ \E i \in 1..Len(RagStore) :
          /\ RagStore[i].document_id = rag.document_id.val
          /\ RagStore[i].page.int /= rag.page_min.val
    /\ \E i \in 1..Len(RagStore) :
          /\ RagStore[i].document_id /= rag.document_id.val
          /\ RagStore[i].tag = rag.tag.val
          /\ RagStore[i].page.int = rag.page_min.val

\* The page bounds are one without the other, or out of order.
BadPageRange(page_min, page_max) ==
    \/ page_min.some /= page_max.some
    \/ page_min.some /\ page_max.some /\ page_min.val > page_max.val

\* C7: a query with one page bound only, or with page_min > page_max, is rejected
\* (ValueError from query_pdf, a parser error from the command line) before any
\* retrieval, embedding or chat-model call.
C7_BadPageRangeRejectedFirst ==
    (rag.pc = "done" /\ rag.entry \in {"query_pdf", "main"}
                     /\ BadPageRange(rag.page_min, rag.page_max)) =>
        /\ rag.outcome = "raised"
        /\ rag.error.type = (IF rag.entry = "main" THEN "SystemExit" ELSE "ValueError")
        /\ rag.calls = NoCalls

\* The query supplied no document id (or a blank one), no tag and no page bound.
NothingSupplied(r) ==
    /\ ~r.document_id.some \/ StripId(r.document_id.val) = ""
    /\ ~r.tag.some
    /\ ~r.page_min.some /\ ~r.page_max.some

\* The query's other arguments pass the checks of its entry point.
OtherwiseValid(r) ==
    r.entry \in {"query_pdf", "query_pdf_tool"} =>
        /\ StripId(r.query) /= "" /\ r.k >= 1 /\ r.k <= 100
        /\ StripId(r.collection) /= "" /\ r.persist_exists

\* The k best chunks of the whole collection, in one of the store's rankings.
UnfilteredHits(k) ==
    {SubSeq(ranked, 1, Min(k, Len(ranked))) : ranked \in {RagStore, Reverse(RagStore)}}

\* C21: a query that supplies no document id, tag or page range (a blank string
\* counting as not supplied) and builds its retriever retrieves with no filter:
\* the retriever is invoked and returns the k best chunks of the whole
\* collection, whatever their document, tag or page.
C21_NothingSuppliedRetrievesUnfiltered ==
    (rag.pc = "done" /\ rag.retriever = "built" /\ NothingSupplied(rag)
        /\ OtherwiseValid(rag)) =>
        /\ rag.calls.retriever = 1
        /\ rag.docs \in UnfilteredHits(rag.k)

\* The three ways a query ends in the state machine Start -> Retrieved ->
\* {EmptyResult | ContextBuilt -> Generated | GenerationFailed}: nothing
\* retrieved and the fixed answer returned without the chat model; a context
\* built from the retrieved chunks and the chat model's answer returned; a
\* context built, the chat model failed and the failure answer returned.
EmptyResult(r) ==
    /\ r.outcome = "returned" /\ r.docs = <<>> /\ r.calls.llm = 0
    /\ r.answer = NoPassagesMessage
Generated(r) ==
    /\ r.outcome = "returned" /\ r.docs /= <<>> /\ r.calls.llm = 1
    /\ r.llm_error = ""
GenerationFailed(r) ==
    /\ r.outcome = "returned" /\ r.docs /= <<>> /\ r.calls.llm = 1
    /\ r.llm_error /= ""

\* C23: every run_rag call invokes the retriever exactly once, the chat model
\* only after it and at most once, and ends in exactly one of EmptyResult,
\* Generated and GenerationFailed.
C23_OneRetrievalOneGenerationThreeEndings ==
    (rag.pc = "done" /\ rag.entry = "run_rag") =>
        /\ rag.calls.retriever = 1
        /\ rag.calls.llm <= 1
        /\ Cardinality({e \in {"EmptyResult", "Generated", "GenerationFailed"} :
                           \/ e = "EmptyResult" /\ EmptyResult(rag)
                           \/ e = "Generated" /\ Generated(rag)
                           \/ e = "GenerationFailed" /\ GenerationFailed(rag)}) = 1

(***************************************************************************)
(* Claims about add_pdfs.                                                  *)
(***************************************************************************)

\* The entries of the log that went to one of the two lists.
LoggedTo(to) == SelectSeq(batch.log, LAMBDA e : e.to = to)

\* C10: add_pdfs attempts every path in the order of the list whatever failed
\* before, no exception of a path leaves add_pdfs, each path ends in exactly one
\* of indexed and failed, a failed entry carrying the path as given and the error
\* text, and total_indexed + total_failed is the number of paths.
C10_EveryPathAccounted ==
    /\ batch.pc \in {"loop", "done"} =>
          /\ Len(batch.log) = batch.i
          /\ \A k \in 1..Len(batch.log) : batch.log[k].pdf_path = batch.pdf_paths[k]
          /\ Len(batch.indexed) = Len(LoggedTo("indexed"))
          /\ Len(batch.failed) = Len(LoggedTo("failed"))
          /\ \A k \in 1..Len(batch.failed) :
                /\ batch.failed[k].pdf_path = LoggedTo("failed")[k].pdf_path
                /\ batch.failed[k].error /= ""
    /\ batch.outcome = "raised" => batch.log = <<>> /\ batch.i = 0
    /\ batch.outcome = "returned" =>
          /\ batch.i = Len(batch.pdf_paths)
          /\ batch.total_indexed + batch.total_failed = Len(batch.pdf_paths)

\* add_pdfs has returned for three paths or more whose first failed, with two
\* different errors among the failures.
C10_Witness ==
    /\ batch.outcome = "returned"
    /\ Len(batch.pdf_paths) >= 3
    /\ batch.log[1].to = "failed"
    /\ \E j, k \in 1..Len(batch.failed) : batch.failed[j].error /= batch.failed[k].error

(***************************************************************************)
(* Claims about the tool layer.                                            *)
(***************************************************************************)

\* The tag a stored chunk carries, "" when its metadata has no tag.
TagOf(record) == IF "tag" \in DOMAIN record THEN record.tag ELSE ""

\* C11: an index_pdf call on a loadable PDF returns, and afterwards every stored
\* chunk of that document carries the tag of the call: the tag given, or no tag
\* when the call gave none.
C11_ChunksCarryTheCallsTag ==
    (last.op = "index_pdf" /\ LoadPdfAsDocuments(last.path).ok) =>
        /\ last.outcome = "returned"
        /\ \A i \in 1..Len(store[last.coll]) :
              store[last.coll][i].document_id = last.document_id =>
                 TagOf(store[last.coll][i]) = last.tag.val

\* The calls C13 is about: a query_pdf, add_pdf, add_pdfs, list_pdfs or remove_pdf
\* just made with a blank query, k outside 1..100, a blank collection, a blank
\* path or document id, no paths, or tags that do not match the paths.
InvalidQueryCall(r) ==
    /\ r.pc = "done" /\ r.entry = "query_pdf"
    /\ (StripId(r.query) = "" \/ r.k < 1 \/ r.k > 100 \/ StripId(r.collection) = "")
InvalidBatchCall(b) ==
    /\ b.pc /= "idle"
    /\ \/ Len(b.pdf_paths) = 0
       \/ StripId(b.collection) = ""
       \/ (b.tags.some /\ Len(b.tags.val) /= Len(b.pdf_paths))
InvalidStoreCall(l) ==
    \/ l.op = "add_pdf" /\ (StripId(l.path) = "" \/ StripId(l.coll) = "")
    \/ l.op = "list_pdfs" /\ StripId(l.coll) = ""
    \/ l.op = "remove" /\ (l.document_id = "" \/ StripId(l.coll) = "")

\* C13: a tool call with invalid input raises ValueError having created no
\* embedding client, chat model or store, and leaves the collections and the
\* persistence directories as they were.
C13_InvalidInputRejectedUntouched ==
    [][ /\ InvalidQueryCall(rag') =>
              /\ rag'.outcome = "raised" /\ rag'.error.type = "ValueError"
              /\ rag'.calls = NoCalls
              /\ store' = store /\ created' = created
        /\ InvalidBatchCall(batch') =>
              /\ batch'.pc = "done" /\ batch'.outcome = "raised"
              /\ batch'.error.type = "ValueError"
              /\ batch'.touched = {}
              /\ store' = store /\ created' = created
        /\ InvalidStoreCall(last') =>
              /\ last'.outcome = "raised" /\ last'.error = "ValueError"
              /\ last'.touched = {}
              /\ store' = store /\ created' = created ]_vars

\* remove_pdf with a blank document id, rejected while the collection holds chunks.
C13_Witness ==
    /\ last.op = "remove" /\ last.document_id = "" /\ last.coll = "c1"
    /\ last.outcome = "raised" /\ last.error = "ValueError"
    /\ Len(store["c1"]) > 0

\* C14: with the persistence directory absent, list_pdfs returns the empty
\* result, opens no store and creates no directory, and a query_pdf call whose
\* arguments are valid raises FileNotFoundError.
C14_MissingDirectoryListsEmptyQueryRaises ==
    /\ (last.op = "list_pdfs" /\ StripId(last.coll) /= "" /\ last.coll \notin created) =>
          /\ last.outcome = "returned"
          /\ last.documents = <<>> /\ last.total_chunks = 0
          /\ last.document_details = <<>>
          /\ last.touched = {}
    /\ (rag.pc = "done" /\ rag.entry = "query_pdf" /\ ~InvalidQueryCall(rag)
           /\ ~rag.persist_exists) =>
          /\ rag.outcome = "raised" /\ rag.error.type = "FileNotFoundError"
          /\ rag.calls = NoCalls

\* list_pdfs of a collection whose directory is absent, while another collection
\* holds chunks.
C14_Witness ==
    /\ last.op = "list_pdfs" /\ last.coll = "c2" /\ "c2" \notin created
    /\ last.outcome = "returned" /\ last.documents = <<>>
    /\ Len(store["c1"]) > 0

\* The place of a document id in Python's order of the model's ids.
RankOf(document_id) == CHOOSE i \in 1..Len(DocIdOrder) : DocIdOrder[i] = document_id

\* C18: list_pdfs returns as documents the ids of the stored chunks (document_id,
\* else file_name, else source, else "unknown"), each once, in sorted order, and
\* as total_chunks the number of chunks stored in the collection.
C18_ListIsSortedDistinctIdsAndCount ==
    (last.op = "list_pdfs" /\ last.outcome = "returned") =>
        /\ {last.documents[i] : i \in 1..Len(last.documents)}
              = {ListDocId(store[last.coll][i]) : i \in 1..Len(store[last.coll])}
        /\ \A i, j \in 1..Len(last.documents) :
              i < j => RankOf(last.documents[i]) < RankOf(last.documents[j])
        /\ last.total_chunks = Len(store[last.coll])

\* b.pdf was indexed before a.pdf, and the list names a.pdf first.
C18_Witness ==
    /\ last.op = "list_pdfs" /\ last.outcome = "returned" /\ last.coll = "c1"
    /\ last.documents = <<"a.pdf", "b.pdf">>
    /\ store["c1"][1].document_id = "b.pdf"
    /\ last.total_chunks = 3

\* C20: when retrieval fails in a query, run_rag and query_pdf raise that
\* exception: no answer, no sources, no call of the chat model.  A call through a
\* server tool that raised has been logged exactly once and still raises; one
\* that returned has not been logged and returns what the tool's function
\* returns; a call not made through the server is not logged.
C20_RetrievalFailurePropagatesLoggedOnce ==
    /\ (rag.pc = "done" /\ rag.retrieval_error /= "") =>
          /\ rag.outcome = "raised" /\ rag.error = RetrievalError
          /\ rag.answer = "" /\ rag.sources = <<>> /\ rag.calls.llm = 0
    /\ rag.pc = "done" =>
          rag.logged = IF rag.entry = "query_pdf_tool" /\ rag.outcome = "raised"
                       THEN 1 ELSE 0
    /\ last.op /= "none" =>
          last.logged = IF last.tool /= "" /\ last.outcome = "raised" THEN 1 ELSE 0
    /\ last.tool = "list_pdfs_tool" =>
          [last EXCEPT !.tool = "", !.logged = 0] = ListPdfsReport(last.coll)

\* query_pdf has passed its checks and created the models, and retrieval failed.
C20_Witness ==
    /\ rag.pc = "done" /\ rag.entry = "query_pdf"
    /\ rag.calls.get_embedding_model = 1 /\ rag.calls.retriever = 1
    /\ rag.retrieval_error = RetrievalError.msg
    /\ rag.outcome = "raised"

\* The stored chunks of other documents than document_id, as they are stored.
ChunksOfOthers(records, document_id) ==
    SelectSeq(records, LAMBDA r : r.document_id /= document_id)

\* C28: an index_pdf, add_pdf or remove_pdf call for document D, whether it
\* returns or raises, leaves the stored chunks of every other document id as
\* they were, content, metadata and order, and leaves the other collections
\* untouched.
C28_OtherDocumentsUntouched ==
    [][ last'.op \in {"index_pdf", "add_pdf", "remove"} =>
          \A c \in Collections :
              /\ ChunksOfOthers(store'[c], last'.document_id)
                    = ChunksOfOthers(store[c], last'.document_id)
              /\ c /= last'.coll => store'[c] = store[c] ]_vars

\* a.pdf has been indexed a second time next to b.pdf: the chunks of the first
\* indexing are gone, those of b.pdf are the ones stored before.
C28_Witness ==
    /\ last.op = "index_pdf" /\ last.outcome = "returned"
    /\ last.document_id = "a.pdf" /\ last.callno = 3
    /\ \E i \in 1..Len(store["c1"]) :
          store["c1"][i].document_id = "b.pdf" /\ store["c1"][i].id[1] = 1
    /\ \A i \in 1..Len(store["c1"]) : store["c1"][i].id[1] /= 2
    /\ CountOf(store["c1"], "a.pdf") = last.total_chunks

(***************************************************************************)
(* Claims about the chunk settings and the splitter.                       *)
(***************************************************************************)

\* The text of the page being chunked, and that text as the splitter receives it.
PageText == cdDocs[1].page_content
PageTextWithBreaks == EnsureHeadingParagraphBreaks(PageText)

\* C15 as stated: a page with text whose length is at most chunk_size yields
\* exactly one chunk, with chunk_index 0.
C15_FittingPageOneChunk ==
    (cdDone /\ ~cfg.raised /\ Strip(PageText) /= <<>> /\ Len(PageText) <= cfg.size) =>
        /\ Len(cdOut) = 1
        /\ cdOut[1].chunk_index = 0

\* C15, amended: a page with text that, once the paragraph breaks before its
\* heading-like lines are inserted, is at most chunk_size long yields exactly one
\* chunk, with chunk_index 0, whose content is that text stripped: nothing is
\* repeated in it.
C15_FittingWithBreaksOneChunk ==
    (cdDone /\ ~cfg.raised /\ Strip(PageText) /= <<>>
        /\ Len(PageTextWithBreaks) <= cfg.size) =>
        /\ Len(cdOut) = 1
        /\ cdOut[1].chunk_index = 0
        /\ cdOut[1].page_content = Strip(PageTextWithBreaks)

\* A page with a heading-like line in the middle that fits with its inserted break.
C15_Witness ==
    /\ cdDone /\ ~cfg.raised
    /\ PageText = TxtPara /\ Len(PageTextWithBreaks) = Len(TxtPara) + 1
    /\ cfg.size = Len(PageTextWithBreaks) /\ cfg.overlap = MaxOverlap
    /\ Len(cdOut) = 1

\* The lines of a text with an empty line put before every line from the second
\* on that satisfies the heading heuristic and follows a line that is not blank.
RECURSIVE HeadingBreaksFrom(_, _, _)
HeadingBreaksFrom(lines, k, out) ==
    IF k > Len(lines) THEN out
    ELSE IF IsHeadingLine(lines[k]) /\ k > 1 /\ Strip(lines[k - 1]) /= <<>>
    THEN HeadingBreaksFrom(lines, k + 1, Append(Append(out, <<>>), lines[k]))
    ELSE HeadingBreaksFrom(lines, k + 1, Append(out, lines[k]))

\* C25: the text the chunker hands to the splitter is the page text with a
\* paragraph break inserted before a line if and only if the line satisfies the
\* heading heuristic (trimmed non-empty, at most 60 characters, no trailing . !
\* or ?, none of # / = ;) and the line before it is not blank; a short line
\* containing #, /, = or ; gets no break.
C25_BreakIffHeadingLine ==
    cdDone =>
        PageTextWithBreaks
            = JoinLines(HeadingBreaksFrom(SegmentsOf(PageText, <<NL>>), 1, <<>>))

\* The characters of a text that are not whitespace, in order.
NonWhitespace(text) == SelectSeq(text, LAMBDA c : c \notin Whitespace)

\* The chunks from the k-th on lay the rest of `chars` out in order: each chunk's
\* characters are a run of `chars` that starts no later than where the chunks
\* before it ended, and the last run ends where `chars` ends.
RECURSIVE ChunksCover(_, _, _, _)
ChunksCover(chars, chunks, k, covered) ==
    IF k > Len(chunks) THEN covered = Len(chars)
    ELSE LET run == NonWhitespace(chunks[k].page_content)
         IN  \E start \in 1..(covered + 1) :
                /\ start + Len(run) - 1 <= Len(chars)
                /\ SubSeq(chars, start, start + Len(run) - 1) = run
                /\ ChunksCover(chars, chunks, k + 1,
                               IF start + Len(run) - 1 > covered
                               THEN start + Len(run) - 1 ELSE covered)

RECURSIVE SumOfLengths(_)
SumOfLengths(chunks) ==
    IF chunks = <<>> THEN 0
    ELSE Len(Head(chunks).page_content) + SumOfLengths(Tail(chunks))

\* C16: whatever the page text, chunk_size and chunk_overlap, when chunking
\* returns, the non-whitespace characters of the page all occur in the chunks,
\* in order and with nothing between them left out, and the chunk lengths add
\* up to at least the number of those characters.
C16_NoContentDropped ==
    (cdDone /\ ~cfg.raised) =>
        /\ ChunksCover(NonWhitespace(PageText), cdOut, 1, 0)
        /\ SumOfLengths(cdOut) >= Len(NonWhitespace(PageText))

\* A page split into three chunks or more, with overlap between them.
C16_Witness ==
    /\ cdDone /\ ~cfg.raised
    /\ PageText = TxtSpaced /\ cfg.overlap = MaxOverlap
    /\ Len(cdOut) >= 3
    /\ SumOfLengths(cdOut) > Len(NonWhitespace(PageText))

\* The integer an environment value stands for when it is set, parses as an
\* integer and is at least `least`; otherwise the default.
FromEnvironment(env, least, default) ==
    IF env.set /\ ParseInt(env.val).ok /\ ParseInt(env.val).val >= least
    THEN ParseInt(env.val).val ELSE default

\* C19: the chunk size and overlap index_pdf hands to the chunker are the
\* arguments when given; otherwise the environment values when they are integers
\* in range (size >= 1, overlap >= 0); otherwise 1000 and 200.  Without an
\* argument the size is never below 1 and the overlap never below 0.
C19_ArgumentThenEnvironmentThenDefault ==
    cdDone =>
        /\ cfg.size = IF cfg.chunk_size.some THEN cfg.chunk_size.val
                      ELSE FromEnvironment(cfg.env_size, 1, DEFAULT_CHUNK_SIZE)
        /\ cfg.overlap = IF cfg.chunk_overlap.some THEN cfg.chunk_overlap.val
                         ELSE FromEnvironment(cfg.env_overlap, 0, DEFAULT_CHUNK_OVERLAP)
        /\ ~cfg.chunk_size.some => cfg.size >= 1
        /\ ~cfg.chunk_overlap.some => cfg.overlap >= 0

\* No arguments, ORACLE_RAG_CHUNK_SIZE=-1 and ORACLE_RAG_CHUNK_OVERLAP=0: the
\* default size and the environment's overlap are used.
C19_Witness ==
    /\ cdDone
    /\ ~cfg.chunk_size.some /\ ~cfg.chunk_overlap.some
    /\ cfg.env_size = EnvSet(<<"-", "1">>) /\ cfg.env_overlap = EnvSet(<<"0">>)
    /\ cfg.size = DEFAULT_CHUNK_SIZE /\ cfg.overlap = 0
    /\ Len(cdOut) = 1

(***************************************************************************)
(* Specifications.  Each one runs one component from its initial states    *)
(* and leaves the others at rest.                                          *)
(***************************************************************************)
InitChunk ==
    /\ \E ps \in SUBSET (1..MaxPages), fn \in {"a.pdf", ""} :
       \E f \in [ps -> SplitOutputs(MaxSplit)] : cdDocs = PageList(ps, fn, f)
    /\ cdOut = <<>> /\ cdDone = FALSE /\ cfg = <<>>
    /\ fsDocs = <<>> /\ fsOut = <<>> /\ fsDone = FALSE
    /\ store = [c \in Collections |-> <<>>] /\ clock = 0
    /\ call = [p \in Procs |-> CallIdle] /\ last = NoSummary /\ created = {}
    /\ rag = <<>> /\ batch = <<>>

InitFmt ==
    /\ cdDocs = <<>> /\ cdOut = <<>> /\ cdDone = FALSE /\ cfg = <<>>
    /\ fsDocs \in SeqsUpTo(SourceMetas, MaxDocs) /\ fsOut = <<>> /\ fsDone = FALSE
    /\ store = [c \in Collections |-> <<>>] /\ clock = 0
    /\ call = [p \in Procs |-> CallIdle] /\ last = NoSummary /\ created = {}
    /\ rag = <<>> /\ batch = <<>>

InitIndex ==
    /\ cdDocs = <<>> /\ cdOut = <<>> /\ cdDone = FALSE /\ cfg = <<>>
    /\ fsDocs = <<>> /\ fsOut = <<>> /\ fsDone = FALSE
    /\ store = [c \in Collections |-> <<>>] /\ clock = 0
    /\ call = [p \in Procs |-> CallIdle] /\ last = NoSummary /\ created = {}
    /\ rag = <<>> /\ batch = <<>>

SpecChunk == InitChunk /\ [][CallChunkDocuments]_vars

InitSplit ==
    /\ cdDocs \in {OnePage(text) : text \in SplitTexts}
    /\ cdOut = <<>> /\ cdDone = FALSE
    /\ cfg \in {[NoSettings EXCEPT !.chunk_size = SomeInt(size),
                                   !.chunk_overlap = SomeInt(overlap)] :
                    size \in 0..MaxChunkSize, overlap \in 0..MaxOverlap}
    /\ fsDocs = <<>> /\ fsOut = <<>> /\ fsDone = FALSE
    /\ store = [c \in Collections |-> <<>>] /\ clock = 0
    /\ call = [p \in Procs |-> CallIdle] /\ last = NoSummary /\ created = {}
    /\ rag = <<>> /\ batch = <<>>

SpecSplit == InitSplit /\ [][IndexChunk]_vars

InitConfig ==
    /\ cdDocs = OnePage(TxtPara)
    /\ cdOut = <<>> /\ cdDone = FALSE
    /\ cfg \in {[NoSettings EXCEPT !.chunk_size = chunk_size,
                                   !.chunk_overlap = chunk_overlap,
                                   !.env_size = env_size,
                                   !.env_overlap = env_overlap] :
                    chunk_size \in {NoneInt, SomeInt(0), SomeInt(15)},
                    chunk_overlap \in {NoneInt, SomeInt(0), SomeInt(MaxOverlap)},
                    env_size \in EnvValues, env_overlap \in EnvValues}
    /\ fsDocs = <<>> /\ fsOut = <<>> /\ fsDone = FALSE
    /\ store = [c \in Collections |-> <<>>] /\ clock = 0
    /\ call = [p \in Procs |-> CallIdle] /\ last = NoSummary /\ created = {}
    /\ rag = <<>> /\ batch = <<>>

SpecConfig == InitConfig /\ [][IndexChunk]_vars

SpecFmt == InitFmt /\ [][CallFormatSources]_vars

InitContext ==
    /\ cdDocs = <<>> /\ cdOut = <<>> /\ cdDone = FALSE /\ cfg = <<>>
    /\ fsDocs \in SeqsUpTo(ContextDocs, MaxDocs) /\ fsOut = <<>> /\ fsDone = FALSE
    /\ store = [c \in Collections |-> <<>>] /\ clock = 0
    /\ call = [p \in Procs |-> CallIdle] /\ last = NoSummary /\ created = {}
    /\ rag = <<>> /\ batch = <<>>

SpecContext == InitContext /\ [][CallFormatDocs]_vars

SpecIndex == InitIndex /\ [][NextIndex]_vars

InitRace ==
    /\ cdDocs = <<>> /\ cdOut = <<>> /\ cdDone = FALSE /\ cfg = <<>>
    /\ fsDocs = <<>> /\ fsOut = <<>> /\ fsDone = FALSE
    /\ store = [c \in Collections |-> <<>>] /\ clock = 0
    /\ call = [p \in Procs |-> CallIdle] /\ last = NoSummary /\ created = {}
    /\ rag = <<>> /\ batch = <<>>

SpecRace == InitRace /\ [][NextRace]_vars

InitBulk ==
    /\ cdDocs = <<>> /\ cdOut = <<>> /\ cdDone = FALSE /\ cfg = <<>>
    /\ fsDocs = <<>> /\ fsOut = <<>> /\ fsDone = FALSE
    /\ store = [c \in Collections |-> <<>>] /\ clock = 0
    /\ call = [p \in Procs |-> CallIdle] /\ last = NoSummary /\ created = {}
    /\ rag = <<>> /\ batch = <<>>

SpecBulk == InitBulk /\ [][NextBulk]_vars

InitReplace ==
    /\ cdDocs = <<>> /\ cdOut = <<>> /\ cdDone = FALSE /\ cfg = <<>>
    /\ fsDocs = <<>> /\ fsOut = <<>> /\ fsDone = FALSE
    /\ store = [c \in Collections |-> <<>>] /\ clock = 0
    /\ call = [p \in Procs |-> CallIdle] /\ last = NoSummary /\ created = {}
    /\ rag = <<>> /\ batch = <<>>

SpecReplace == InitReplace /\ [][NextReplace]_vars

InitRag ==
    /\ cdDocs = <<>> /\ cdOut = <<>> /\ cdDone = FALSE /\ cfg = <<>>
    /\ fsDocs = <<>> /\ fsOut = <<>> /\ fsDone = FALSE
    /\ store = [c \in Collections |-> <<>>] /\ clock = 0
    /\ call = [p \in Procs |-> CallIdle] /\ last = NoSummary /\ created = {}
    /\ rag = RagIdle /\ batch = <<>>

SpecRag == InitRag /\ [][NextRag]_vars

InitBatch ==
    /\ cdDocs = <<>> /\ cdOut = <<>> /\ cdDone = FALSE /\ cfg = <<>>
    /\ fsDocs = <<>> /\ fsOut = <<>> /\ fsDone = FALSE
    /\ store = [c \in Collections |-> <<>>] /\ clock = 0
    /\ call = [p \in Procs |-> CallIdle] /\ last = NoSummary /\ created = {}
    /\ rag = <<>> /\ batch = BatchIdle

SpecBatch == InitBatch /\ [][NextBatch]_vars

InitTools ==
    /\ cdDocs = <<>> /\ cdOut = <<>> /\ cdDone = FALSE /\ cfg = <<>>
    /\ fsDocs = <<>> /\ fsOut = <<>> /\ fsDone = FALSE
    /\ store = [c \in Collections |-> <<>>]
    /\ clock = 0
    /\ call = [p \in Procs |-> CallIdle]
    /\ last = NoSummary
    /\ created = {}
    /\ rag = RagIdle
    /\ batch = BatchIdle

SpecTools == InitTools /\ [][NextTools]_vars

====
